---------------------------- MODULE Spec2Model ----------------------------
(***************************************************************************)
(* GuardRails (gur): the task store, the dependency graph, the per-task    *)
(* gate links, the audit trail and the close workflow, as a state machine  *)
(* over the rows of the store.  One action per command handler; a handler  *)
(* that returns an error reports it in `last` (the outcome of the most     *)
(* recent command) and keeps whatever rows it wrote before the error.      *)
(***************************************************************************)
EXTENDS Integers, Sequences, FiniteSets, TLC

VARIABLES
    tasks,      \* table tasks: id -> row (models.Task)
    deps,       \* table dependencies, live rows: <<parent_id, child_id, type>> -> number of rows
    gates,      \* table gates: id -> row (models.Gate)
    links,      \* table gate_task_links, live rows: <<gate_id, task_id>> -> its rows in id order
    runs,       \* table gate_runs: gate_id -> results in creation order
    history,    \* table task_histories, in creation order
    last,       \* outcome of the most recent command
    closing,    \* a close command of a second process, between two of its store calls
    adding      \* a dep add command of a second process, between two of its store calls

vars == <<tasks, deps, gates, links, runs, history, last, closing, adding>>

-----------------------------------------------------------------------------
(* Bounds of the model *)

MaxTasks == 3       \* rows of the tasks table
MaxDepRows == 3     \* live rows of the dependencies table
MaxRuns == 2        \* verifications recorded per gate
MaxHist == 4        \* rows of the task_histories table

-----------------------------------------------------------------------------
(* Program constants (internal/models) *)

StatusOpen == "open"
StatusInProgress == "in_progress"
StatusClosed == "closed"
StatusArchived == "archived"

DepTypeBlocks == "blocks"
DepTypeRelated == "related"
DepTypeParentChild == "parent-child"

GatePending == "pending"
GatePassed == "passed"
GateFailed == "failed"
GateSkipped == "skipped"

GateLinkPending == "pending"
GateLinkPassed == "passed"
GateLinkFailed == "failed"

-----------------------------------------------------------------------------
(* Identifiers.  A task id is the sequence of its dot-separated segments:  *)
(* <<"A">> is a root id, <<"A", 1>> is the subtask "A.1".  The empty       *)
(* sequence is the empty string (no parent).                               *)

RootIDs == {"A", "B"}
NoID == <<>>

\* GenerateSubtaskID: fmt.Sprintf("%s.%d", parentID, subtaskNumber)
GenerateSubtaskID(parentID, subtaskNumber) == Append(parentID, subtaskNumber)

\* the ids the commands are called with
Ordinals == 1..(MaxTasks - 1)
IDs ==
    LET d0 == {<<r>> : r \in RootIDs}
        d1 == {Append(p, n) : p \in d0, n \in Ordinals}
        d2 == {Append(p, n) : p \in d1, n \in Ordinals}
    IN d0 \cup d1 \cup d2

GateIDs == {<<"g1">>, <<"g2">>}

-----------------------------------------------------------------------------
(* Store lookups *)

\* db.GetTaskByID: the row with this id, an error when there is none
GetTaskByID(id) == id \in DOMAIN tasks

\* db.GetGateByID
GetGateByID(id) == id \in DOMAIN gates

PriorityMedium == 2
TypeTask == "task"
TypeBug == "bug"

\* a new row of the tasks table, as runCreate builds it; closed_at is FALSE for
\* the nil pointer and TRUE for a timestamp
NewTask(parentID, title, priority) ==
    [status |-> StatusOpen, parent_id |-> parentID, title |-> title,
     priority |-> priority, close_reason |-> "", closed_at |-> FALSE,
     compacted |-> FALSE, type |-> TypeTask, description |-> "", notes |-> "",
     summary |-> "", assignee |-> "", labels |-> <<>>]

Outcome(cmd, a, b, err) == [cmd |-> cmd, a |-> a, b |-> b, err |-> err]

\* no close command is between two store calls
NoClose == [pc |-> "idle", id |-> NoID, task |-> NewTask(NoID, "", PriorityMedium)]

\* no dep add command is between two store calls
NoAdd ==
    [pc |-> "idle", blockerID |-> NoID, blockedID |-> NoID, depType |-> "",
     queue |-> <<>>, visited |-> {}, expanded |-> <<>>]

-----------------------------------------------------------------------------
(* Dependency graph (cmd/dep.go) *)

DepTypes == {DepTypeBlocks, DepTypeRelated, DepTypeParentChild}

DepRowCount ==
    LET RECURSIVE Sum(_)
        Sum(S) == IF S = {} THEN 0
                  ELSE LET k == CHOOSE k \in S : TRUE IN deps[k] + Sum(S \ {k})
    IN Sum(DOMAIN deps)

\* database.Where("parent_id = ?", current).Find(&deps): the child_id of every
\* live row whose parent is current, one entry per row
RECURSIVE RowsToSeq(_, _)
RowsToSeq(keys, d) ==
    IF keys = {} THEN <<>>
    ELSE LET k == CHOOSE k \in keys : TRUE
         IN [i \in 1..d[k] |-> k[2]] \o RowsToSeq(keys \ {k}, d)

ChildrenOf(current) ==
    RowsToSeq({k \in DOMAIN deps : k[1] = current}, deps)

SeqRange(s) == {s[i] : i \in 1..Len(s)}

\* the breadth-first search of wouldCreateCycle: the queue, the visited set
RECURSIVE CycleSearch(_, _, _)
CycleSearch(queue, visited, blockerID) ==
    IF queue = <<>> THEN FALSE
    ELSE LET current == Head(queue)
             rest == Tail(queue)
         IN IF current \in visited
            THEN CycleSearch(rest, visited, blockerID)
            ELSE LET seen == visited \cup {current}
                     children == ChildrenOf(current)
                 IN IF blockerID \in SeqRange(children)
                    THEN TRUE
                    ELSE CycleSearch(rest \o SelectSeq(children, LAMBDA c : c \notin seen),
                                     seen, blockerID)

\* a search that looks only at the rows leaving blockedID
wouldCreateCycleOneLevel(blockerID, blockedID) ==
    blockerID \in SeqRange(ChildrenOf(blockedID))

wouldCreateCycle(blockerID, blockedID) ==
    CycleSearch(<<blockedID>>, {}, blockerID)

DepAddError(blockerID, blockedID) ==
    IF ~GetTaskByID(blockerID) THEN "blocker task not found"
    ELSE IF ~GetTaskByID(blockedID) THEN "blocked task not found"
    ELSE IF blockerID = blockedID THEN "task cannot block itself"
    ELSE IF wouldCreateCycle(blockerID, blockedID) THEN "circular dependency detected"
    ELSE ""

\* Dependency.BeforeCreate: an empty type becomes blocks
DepBeforeCreate(type) == IF type = "" THEN DepTypeBlocks ELSE type

InsertDep(key) ==
    IF key \in DOMAIN deps
    THEN [deps EXCEPT ![key] = @ + 1]
    ELSE [k \in DOMAIN deps \cup {key} |-> IF k = key THEN 1 ELSE deps[k]]

\* a dep add that writes the row before it looks for a cycle
runDepAddInsertFirst(blockerID, blockedID, depType) ==
    LET err == DepAddError(blockerID, blockedID)
        written == err \in {"", "circular dependency detected"}
    IN /\ written => DepRowCount < MaxDepRows
       /\ deps' = IF written
                  THEN InsertDep(<<blockerID, blockedID, DepBeforeCreate(depType)>>)
                  ELSE deps
       /\ last' = Outcome("dep add", blockerID, blockedID, err)
       /\ UNCHANGED <<tasks, gates, links, runs, history, closing, adding>>

runDepAdd(blockerID, blockedID, depType) ==
    LET err == DepAddError(blockerID, blockedID)
    IN /\ err = "" => DepRowCount < MaxDepRows
       /\ deps' = IF err = ""
                  THEN InsertDep(<<blockerID, blockedID, DepBeforeCreate(depType)>>)
                  ELSE deps
       /\ last' = Outcome("dep add", blockerID, blockedID, err)
       /\ UNCHANGED <<tasks, gates, links, runs, history, closing, adding>>

\* runDepAdd as a second process runs it: one action per store call, so that
\* the commands of the first process can come between the queries of the
\* search and the insert.  `adding` holds the arguments, the queue and the
\* visited map of wouldCreateCycle, and the nodes expanded so far (the
\* parent_id queries made), which stay readable after the call has ended.
runDepAddLoad(blockerID, blockedID, depType) ==
    LET err == IF ~GetTaskByID(blockerID) THEN "blocker task not found"
               ELSE IF ~GetTaskByID(blockedID) THEN "blocked task not found"
               ELSE IF blockerID = blockedID THEN "task cannot block itself"
               ELSE ""
    IN /\ adding.pc = "idle"
       /\ adding' = IF err = ""
                    THEN [pc |-> "search", blockerID |-> blockerID, blockedID |-> blockedID,
                          depType |-> depType, queue |-> <<blockedID>>, visited |-> {},
                          expanded |-> <<>>]
                    ELSE NoAdd
       /\ last' = IF err = "" THEN last ELSE Outcome("dep add", blockerID, blockedID, err)
       /\ UNCHANGED <<tasks, deps, gates, links, runs, history, closing>>

\* an iteration that never marks a node as visited
wouldCreateCycleStepNoVisited ==
    /\ adding.pc = "search"
    /\ IF adding.queue = <<>>
       THEN adding' = [adding EXCEPT !.pc = "insert"] /\ last' = last
       ELSE LET current == Head(adding.queue)
                rest == Tail(adding.queue)
                children == ChildrenOf(current)
            IN IF adding.blockerID \in SeqRange(children)
               THEN /\ adding' = [adding EXCEPT !.pc = "idle", !.queue = rest,
                                                !.expanded = Append(@, current)]
                    /\ last' = Outcome("dep add", adding.blockerID, adding.blockedID,
                                       "circular dependency detected")
               ELSE /\ adding' = [adding EXCEPT !.queue = rest \o children,
                                                !.expanded = Append(@, current)]
                    /\ last' = last
    /\ UNCHANGED <<tasks, deps, gates, links, runs, history, closing>>

\* one iteration of the loop of wouldCreateCycle; the loop ends with false
\* when the queue is empty (the insert is next) and with true when a row
\* leads to blockerID
wouldCreateCycleStep ==
    /\ adding.pc = "search"
    /\ IF adding.queue = <<>>
       THEN adding' = [adding EXCEPT !.pc = "insert"] /\ last' = last
       ELSE LET current == Head(adding.queue)
                rest == Tail(adding.queue)
            IN IF current \in adding.visited
               THEN adding' = [adding EXCEPT !.queue = rest] /\ last' = last
               ELSE LET seen == adding.visited \cup {current}
                        children == ChildrenOf(current)
                    IN IF adding.blockerID \in SeqRange(children)
                       THEN /\ adding' = [adding EXCEPT !.pc = "idle", !.queue = rest,
                                                        !.visited = seen,
                                                        !.expanded = Append(@, current)]
                            /\ last' = Outcome("dep add", adding.blockerID, adding.blockedID,
                                               "circular dependency detected")
                       ELSE /\ adding' = [adding EXCEPT
                                             !.queue = rest \o SelectSeq(children,
                                                                 LAMBDA c : c \notin seen),
                                             !.visited = seen,
                                             !.expanded = Append(@, current)]
                            /\ last' = last
    /\ UNCHANGED <<tasks, deps, gates, links, runs, history, closing>>

\* database.Create(dep) after the search has returned false
runDepAddInsert ==
    /\ adding.pc = "insert"
    /\ DepRowCount < MaxDepRows
    /\ deps' = InsertDep(<<adding.blockerID, adding.blockedID, DepBeforeCreate(adding.depType)>>)
    /\ adding' = [adding EXCEPT !.pc = "idle"]
    /\ last' = Outcome("dep add", adding.blockerID, adding.blockedID, "")
    /\ UNCHANGED <<tasks, gates, links, runs, history, closing>>

DepRemoveError(blockerID, blockedID) ==
    IF ~GetTaskByID(blockerID) THEN "blocker task not found"
    ELSE IF ~GetTaskByID(blockedID) THEN "blocked task not found"
    ELSE IF {k \in DOMAIN deps : k[1] = blockerID /\ k[2] = blockedID} = {}
         THEN "dependency not found"
    ELSE ""

runDepRemove(blockerID, blockedID) ==
    LET err == DepRemoveError(blockerID, blockedID)
        keep == {k \in DOMAIN deps : ~(k[1] = blockerID /\ k[2] = blockedID)}
    IN /\ deps' = IF err = "" THEN [k \in keep |-> deps[k]] ELSE deps
       /\ last' = Outcome("dep remove", blockerID, blockedID, err)
       /\ UNCHANGED <<tasks, gates, links, runs, history, closing, adding>>

-----------------------------------------------------------------------------
(* Gate verification (cmd/gate.go, models.Gate) *)

GateResults == {GatePassed, GateFailed, GateSkipped}

\* the row runGateCreate inserts
NewGate == [last_result |-> GatePending, run_count |-> 0, pass_count |-> 0, fail_count |-> 0]

\* the row runGateLink inserts
NewLink == [status |-> GateLinkPending, verified_at |-> FALSE, verified_by |-> ""]

\* a RecordRun that counts a skipped run as a failed one
RecordRunSkipFails(g, result) ==
    [g EXCEPT !.last_result = result,
              !.run_count = @ + 1,
              !.pass_count = IF result = GatePassed THEN @ + 1 ELSE @,
              !.fail_count = IF result # GatePassed THEN @ + 1 ELSE @]

\* Gate.RecordRun
RecordRun(g, result) ==
    [g EXCEPT !.last_result = result,
              !.run_count = @ + 1,
              !.pass_count = IF result = GatePassed THEN @ + 1 ELSE @,
              !.fail_count = IF result = GateFailed THEN @ + 1 ELSE @]

runGateCreate(gateID) ==
    /\ gateID \notin DOMAIN gates
    /\ gates' = [g \in DOMAIN gates \cup {gateID} |-> IF g = gateID THEN NewGate ELSE gates[g]]
    /\ runs' = [g \in DOMAIN gates \cup {gateID} |-> IF g = gateID THEN <<>> ELSE runs[g]]
    /\ last' = Outcome("gate create", NoID, gateID, "")
    /\ UNCHANGED <<tasks, deps, links, history, closing, adding>>

\* a gate link that does not look for an existing link
GateLinkErrorNoExisting(gateID, taskID) ==
    IF ~GetGateByID(gateID) THEN "gate not found"
    ELSE IF ~GetTaskByID(taskID) THEN "task not found"
    ELSE ""

GateLinkError(gateID, taskID) ==
    IF ~GetGateByID(gateID) THEN "gate not found"
    ELSE IF ~GetTaskByID(taskID) THEN "task not found"
    ELSE IF <<gateID, taskID>> \in DOMAIN links THEN "already linked"
    ELSE ""

\* database.Create(link): one more row for the pair
InsertLink(key) ==
    IF key \in DOMAIN links
    THEN [links EXCEPT ![key] = Append(@, NewLink)]
    ELSE [k \in DOMAIN links \cup {key} |-> IF k = key THEN <<NewLink>> ELSE links[k]]

runGateLink(gateID, taskID) ==
    LET err == GateLinkError(gateID, taskID)
        key == <<gateID, taskID>>
    IN /\ links' = IF err = "" THEN InsertLink(key) ELSE links
       /\ last' = Outcome("gate link", taskID, gateID, err)
       /\ UNCHANGED <<tasks, deps, gates, runs, history, closing, adding>>

GateUnlinkError(gateID, taskID) ==
    IF <<gateID, taskID>> \notin DOMAIN links THEN "no link exists" ELSE ""

runGateUnlink(gateID, taskID) ==
    LET err == GateUnlinkError(gateID, taskID)
    IN /\ links' = IF err = ""
                   THEN [k \in DOMAIN links \ {<<gateID, taskID>>} |-> links[k]]
                   ELSE links
       /\ last' = Outcome("gate unlink", taskID, gateID, err)
       /\ UNCHANGED <<tasks, deps, gates, runs, history, closing, adding>>

GateResultError(gateID, taskID) ==
    IF ~GetGateByID(gateID) THEN "gate not found"
    ELSE IF ~GetTaskByID(taskID) THEN "task not found"
    ELSE IF <<gateID, taskID>> \notin DOMAIN links THEN "not linked"
    ELSE ""

\* a verification that writes the result to every link of the gate
VerifiedLinksOfGate(gateID, taskID, result, runBy) ==
    [k \in DOMAIN links |->
        IF k[1] = gateID
        THEN [i \in 1..Len(links[k]) |->
                [status |-> result, verified_at |-> TRUE, verified_by |-> runBy]]
        ELSE links[k]]

\* a verification that never overwrites a passed link
VerifiedLinksKeepPassed(gateID, taskID, result, runBy) ==
    [links EXCEPT ![<<gateID, taskID>>][1] =
        IF @.status = GateLinkPassed THEN @
        ELSE [status |-> result, verified_at |-> TRUE, verified_by |-> runBy]]

\* runGateResult, the link it loaded (First: the row of the pair with the
\* lowest id), changed and saved
VerifiedLinks(gateID, taskID, result, runBy) ==
    [links EXCEPT ![<<gateID, taskID>>][1] =
        [status |-> result, verified_at |-> TRUE, verified_by |-> runBy]]

GateResultCmd(result) ==
    CASE result = GatePassed -> "gate pass"
      [] result = GateFailed -> "gate fail"
      [] OTHER -> "gate skip"

\* a verification that records the run on the gate before it looks for the link
runGateResultCountsFirst(gateID, taskID, result, runBy) ==
    LET err == GateResultError(gateID, taskID)
        counted == err \in {"", "not linked"}
    IN /\ counted => gates[gateID].run_count < MaxRuns
       /\ links' = IF err = "" THEN VerifiedLinks(gateID, taskID, result, runBy) ELSE links
       /\ gates' = IF counted THEN [gates EXCEPT ![gateID] = RecordRun(@, result)] ELSE gates
       /\ runs' = IF counted THEN [runs EXCEPT ![gateID] = Append(@, result)] ELSE runs
       /\ last' = Outcome(GateResultCmd(result), taskID, gateID, err)
       /\ UNCHANGED <<tasks, deps, history, closing, adding>>

runGateResult(gateID, taskID, result, runBy) ==
    LET err == GateResultError(gateID, taskID)
    IN /\ err = "" => gates[gateID].run_count < MaxRuns
       /\ links' = IF err = "" THEN VerifiedLinks(gateID, taskID, result, runBy) ELSE links
       /\ gates' = IF err = "" THEN [gates EXCEPT ![gateID] = RecordRun(@, result)] ELSE gates
       /\ runs' = IF err = "" THEN [runs EXCEPT ![gateID] = Append(@, result)] ELSE runs
       /\ last' = Outcome(GateResultCmd(result), taskID, gateID, err)
       /\ UNCHANGED <<tasks, deps, history, closing, adding>>

\* GetGateLinksForTask: the links of the task whose gate can be loaded
GetGateLinksForTask(taskID) ==
    {k \in DOMAIN links : k[2] = taskID /\ GetGateByID(k[1])}

\* GetFailingGateLinksForTask
GetFailingGateLinksForTask(taskID) ==
    {k \in GetGateLinksForTask(taskID) :
        \E i \in 1..Len(links[k]) : links[k][i].status # GateLinkPassed}

\* a check that reads the gate's last global result instead of the link
CheckGatesBeforeCloseGlobal(taskID) ==
    IF GetGateLinksForTask(taskID) = {} THEN "no gates linked"
    ELSE IF \E k \in GetGateLinksForTask(taskID) : gates[k[1]].last_result # GatePassed
         THEN "gates not verified"
    ELSE ""

\* CheckGatesBeforeClose: "" is nil, otherwise the error
CheckGatesBeforeClose(taskID) ==
    IF GetGateLinksForTask(taskID) = {} THEN "no gates linked"
    ELSE IF GetFailingGateLinksForTask(taskID) # {} THEN "gates not verified"
    ELSE ""

-----------------------------------------------------------------------------
(* Audit trail (models.RecordChange) *)

\* a RecordChange that writes an entry whether or not the value changed
RecordChangeAlways(h, taskID, field, oldValue, newValue, changedBy) ==
    Append(h, [task_id |-> taskID, field |-> field, old_value |-> oldValue,
               new_value |-> newValue, changed_by |-> changedBy])

\* a RecordChange that keeps one entry per task and field, overwriting it
RecordChangeLatestOnly(h, taskID, field, oldValue, newValue, changedBy) ==
    IF oldValue = newValue THEN h
    ELSE Append(SelectSeq(h, LAMBDA entry : ~(entry.task_id = taskID /\ entry.field = field)),
                [task_id |-> taskID, field |-> field, old_value |-> oldValue,
                 new_value |-> newValue, changed_by |-> changedBy])

\* RecordChange: no entry when the old value equals the new one
RecordChange(h, taskID, field, oldValue, newValue, changedBy) ==
    IF oldValue = newValue THEN h
    ELSE Append(h, [task_id |-> taskID, field |-> field, old_value |-> oldValue,
                    new_value |-> newValue, changed_by |-> changedBy])

-----------------------------------------------------------------------------
(* Task methods (models.Task) *)

IsClosed(t) == t.status = StatusClosed

\* a close that sets the status and the timestamp and leaves close_reason
CloseKeepsReason(t, reason) ==
    [t EXCEPT !.status = StatusClosed, !.closed_at = TRUE]

Close(t, reason) ==
    [t EXCEPT !.status = StatusClosed, !.close_reason = reason, !.closed_at = TRUE]

\* a reopen that sets the status and keeps close_reason and closed_at
ReopenKeepsReason(t) == [t EXCEPT !.status = StatusOpen]

Reopen(t) ==
    [t EXCEPT !.status = StatusOpen, !.close_reason = "", !.closed_at = FALSE]

Archive(t) == [t EXCEPT !.status = StatusArchived]

\* an unarchive that reopens the task
UnarchiveToOpen(t) == [t EXCEPT !.status = StatusOpen, !.close_reason = "", !.closed_at = FALSE]

Unarchive(t) == [t EXCEPT !.status = StatusClosed]

\* a compaction that clears close_reason with the verbose fields
CompactClearsReason(t) ==
    IF t.compacted THEN t
    ELSE [t EXCEPT !.summary = t.title, !.description = "", !.notes = "",
                   !.close_reason = "", !.compacted = TRUE]

\* Task.Compact: the summary is built from the title, the close reason and the
\* type; description and notes are cleared
Compact(t) ==
    IF t.compacted THEN t
    ELSE LET closed == IF t.close_reason # "" THEN t.title \o " | Closed: " \o t.close_reason
                       ELSE t.title
             summary == IF t.type # TypeTask THEN "[" \o t.type \o "] " \o closed ELSE closed
         IN [t EXCEPT !.summary = summary, !.description = "", !.notes = "",
                      !.compacted = TRUE]

-----------------------------------------------------------------------------
(* The confirmation prompt: the line read from stdin is a sequence of       *)
(* characters, lower-cased and trimmed before it is compared with "yes"     *)

ToLowerChar(c) ==
    CASE c = "Y" -> "y" [] c = "E" -> "e" [] c = "S" -> "s"
      [] c = "N" -> "n" [] c = "O" -> "o" [] OTHER -> c

ToLower(s) == [i \in 1..Len(s) |-> ToLowerChar(s[i])]

IsSpace(c) == c \in {" ", "\t", "\n", "\r"}

RECURSIVE TrimLeft(_)
TrimLeft(s) == IF s # <<>> /\ IsSpace(Head(s)) THEN TrimLeft(Tail(s)) ELSE s

RECURSIVE TrimRight(_)
TrimRight(s) ==
    IF s # <<>> /\ IsSpace(s[Len(s)]) THEN TrimRight(SubSeq(s, 1, Len(s) - 1)) ELSE s

TrimSpace(s) == TrimRight(TrimLeft(s))

\* a confirmation that compares the typed line as it is
ConfirmedExact(answer) == answer = <<"y", "e", "s">>

\* confirmation = strings.TrimSpace(strings.ToLower(confirmation)); confirmation == "yes"
Confirmed(answer) == TrimSpace(ToLower(answer)) = <<"y", "e", "s">>

-----------------------------------------------------------------------------
(* Task commands (cmd/create.go, update.go, close.go, root.go, show.go,      *)
(* compact.go).  update is modelled with its flags title, priority and      *)
(* status; description, type, assignee, notes and labels are written by     *)
(* update the way title is.                                                 *)

\* number of rows (not of keys) of the dependencies table among keys
RECURSIVE SumRows(_)
SumRows(keys) ==
    IF keys = {} THEN 0
    ELSE LET k == CHOOSE k \in keys : TRUE IN deps[k] + SumRows(keys \ {k})

\* a count that takes only blockers with status open as open
OpenBlockerCountOpenOnly(taskID) ==
    SumRows({k \in DOMAIN deps :
                /\ k[2] = taskID /\ k[3] = DepTypeBlocks
                /\ k[1] \in DOMAIN tasks /\ tasks[k[1]].status = StatusOpen})

\* runClose, blockerCount: rows of type blocks onto the task, joined with the
\* blocker's row, whose blocker has a status other than closed
OpenBlockerCount(taskID) ==
    SumRows({k \in DOMAIN deps :
                /\ k[2] = taskID /\ k[3] = DepTypeBlocks
                /\ k[1] \in DOMAIN tasks /\ tasks[k[1]].status # StatusClosed})

\* a count that takes only subtasks with status open as open
OpenSubtasksOpenOnly(taskID) ==
    Cardinality({t \in DOMAIN tasks :
                    tasks[t].parent_id = taskID /\ tasks[t].status = StatusOpen})

\* runClose, openSubtasks: rows with parent_id = task and status other than closed
OpenSubtasks(taskID) ==
    Cardinality({t \in DOMAIN tasks :
                    tasks[t].parent_id = taskID /\ tasks[t].status # StatusClosed})

\* a close whose force flag leaves the blocker and subtask checks in place
CloseErrorForceKeepsChecks(id, force, tty, answer) ==
    IF ~GetTaskByID(id) THEN "task not found"
    ELSE IF IsClosed(tasks[id]) THEN "already closed"
    ELSE IF OpenBlockerCount(id) > 0 THEN "blocked by open tasks"
    ELSE IF OpenSubtasks(id) > 0 THEN "has open subtasks"
    ELSE IF CheckGatesBeforeClose(id) = "" THEN ""
    ELSE IF ~force THEN CheckGatesBeforeClose(id)
    ELSE IF ~tty THEN "--force requires interactive confirmation"
    ELSE IF ~Confirmed(answer) THEN "force close cancelled"
    ELSE ""

\* a close whose force flag also skips the already-closed guard
CloseErrorForceReclose(id, force, tty, answer) ==
    IF ~GetTaskByID(id) THEN "task not found"
    ELSE IF ~force
         THEN IF IsClosed(tasks[id]) THEN "already closed"
              ELSE IF OpenBlockerCount(id) > 0 THEN "blocked by open tasks"
              ELSE IF OpenSubtasks(id) > 0 THEN "has open subtasks"
              ELSE CheckGatesBeforeClose(id)
    ELSE IF CheckGatesBeforeClose(id) = "" THEN ""
    ELSE IF ~tty THEN "--force requires interactive confirmation"
    ELSE IF ~Confirmed(answer) THEN "force close cancelled"
    ELSE ""

\* runClose up to its first write: "" when the task is going to be closed,
\* otherwise the error returned.  The message for a closed task formats
\* closed_at, a nil pointer when the task was closed by update.
CloseError(id, force, tty, answer) ==
    IF ~GetTaskByID(id) THEN "task not found"
    ELSE IF IsClosed(tasks[id])
         THEN IF tasks[id].closed_at THEN "already closed"
              ELSE "panic: nil pointer dereference"
    ELSE IF ~force
         THEN IF OpenBlockerCount(id) > 0 THEN "blocked by open tasks"
              ELSE IF OpenSubtasks(id) > 0 THEN "has open subtasks"
              ELSE CheckGatesBeforeClose(id)
    ELSE IF CheckGatesBeforeClose(id) = "" THEN ""
    ELSE IF ~tty THEN "--force requires interactive confirmation"
    ELSE IF ~Confirmed(answer) THEN "force close cancelled"
    ELSE ""

ForceClosedPrefix == "[FORCE CLOSED] "

\* a stored reason that never carries the force marker
StoredReasonUnmarked(id, reason, force) == reason

\* the reason runClose stores: prefixed when the gate check was bypassed
StoredReason(id, reason, force) ==
    IF force /\ CheckGatesBeforeClose(id) # "" THEN ForceClosedPrefix \o reason ELSE reason

CloseCmd(force) == IF force THEN "close --force" ELSE "close"

runClose(id, reason, force, tty, answer) ==
    LET err == CloseError(id, force, tty, answer)
        stored == StoredReason(id, reason, force)
        h1 == RecordChange(history, id, "status", tasks[id].status, StatusClosed, "user")
        h2 == RecordChange(h1, id, "close_reason", "", stored, "user")
    IN /\ err = "" => Len(h2) <= MaxHist
       /\ tasks' = IF err = "" THEN [tasks EXCEPT ![id] = Close(@, stored)] ELSE tasks
       /\ history' = IF err = "" THEN h2 ELSE history
       /\ last' = Outcome(CloseCmd(force), id, NoID, err)
       /\ UNCHANGED <<deps, gates, links, runs, closing, adding>>

\* runClose without --force as a second process runs it: one action per store
\* call, so that the commands of the first process can come between the
\* checks and the write.  `closing` holds the task as it was loaded; the two
\* history inserts and the Save of the task are one step.
CloseStep(pc, err) ==
    /\ closing' = IF err = "" THEN [closing EXCEPT !.pc = pc] ELSE NoClose
    /\ last' = IF err = "" THEN last ELSE Outcome("close", closing.id, NoID, err)
    /\ UNCHANGED <<tasks, deps, gates, links, runs, history, adding>>

runCloseLoad(id) ==
    LET err == IF ~GetTaskByID(id) THEN "task not found"
               ELSE IF IsClosed(tasks[id])
                    THEN IF tasks[id].closed_at THEN "already closed"
                         ELSE "panic: nil pointer dereference"
               ELSE ""
    IN /\ closing.pc = "idle"
       /\ closing' = IF err = "" THEN [pc |-> "blockers", id |-> id, task |-> tasks[id]]
                     ELSE NoClose
       /\ last' = IF err = "" THEN last ELSE Outcome("close", id, NoID, err)
       /\ UNCHANGED <<tasks, deps, gates, links, runs, history, adding>>

runCloseBlockers ==
    /\ closing.pc = "blockers"
    /\ CloseStep("subtasks",
                 IF OpenBlockerCount(closing.id) > 0 THEN "blocked by open tasks" ELSE "")

runCloseSubtasks ==
    /\ closing.pc = "subtasks"
    /\ CloseStep("gates", IF OpenSubtasks(closing.id) > 0 THEN "has open subtasks" ELSE "")

runCloseGates ==
    /\ closing.pc = "gates"
    /\ CloseStep("write", CheckGatesBeforeClose(closing.id))

\* a write that counts the open blockers again and gives up when there is one
runCloseWriteRechecks(reason) ==
    LET id == closing.id
        blocked == OpenBlockerCount(id) > 0
        h1 == RecordChange(history, id, "status", closing.task.status, StatusClosed, "user")
        h2 == RecordChange(h1, id, "close_reason", "", reason, "user")
    IN /\ closing.pc = "write"
       /\ Len(h2) <= MaxHist
       /\ tasks' = IF blocked THEN tasks ELSE [tasks EXCEPT ![id] = Close(closing.task, reason)]
       /\ history' = IF blocked THEN history ELSE h2
       /\ last' = Outcome("close", id, NoID, IF blocked THEN "blocked by open tasks" ELSE "")
       /\ closing' = NoClose
       /\ UNCHANGED <<deps, gates, links, runs, adding>>

runCloseWrite(reason) ==
    LET id == closing.id
        h1 == RecordChange(history, id, "status", closing.task.status, StatusClosed, "user")
        h2 == RecordChange(h1, id, "close_reason", "", reason, "user")
    IN /\ closing.pc = "write"
       /\ Len(h2) <= MaxHist
       /\ tasks' = [tasks EXCEPT ![id] = Close(closing.task, reason)]
       /\ history' = h2
       /\ last' = Outcome("close", id, NoID, "")
       /\ closing' = NoClose
       /\ UNCHANGED <<deps, gates, links, runs, adding>>

\* a ready query whose blocked list ignores the type of the dependency
blockedTaskIDsAnyType ==
    {k[2] : k \in {k \in DOMAIN deps :
                     k[1] \in DOMAIN tasks /\ tasks[k[1]].status # StatusClosed}}

\* runReady, first query: the tasks at the child end of a row of type blocks
\* whose parent task has a status other than closed
blockedTaskIDs ==
    {k[2] : k \in {k \in DOMAIN deps :
                     /\ k[3] = DepTypeBlocks
                     /\ k[1] \in DOMAIN tasks /\ tasks[k[1]].status # StatusClosed}}

\* runReady, second query: the open and in_progress tasks not in that list
runReady ==
    {t \in DOMAIN tasks :
        tasks[t].status \in {StatusOpen, StatusInProgress} /\ t \notin blockedTaskIDs}

runReopen(id) ==
    LET err == IF ~GetTaskByID(id) THEN "task not found"
               ELSE IF ~IsClosed(tasks[id]) THEN "task is not closed"
               ELSE ""
        h1 == RecordChange(history, id, "status", tasks[id].status, StatusOpen, "user")
    IN /\ err = "" => Len(h1) <= MaxHist
       /\ tasks' = IF err = "" THEN [tasks EXCEPT ![id] = Reopen(@)] ELSE tasks
       /\ history' = IF err = "" THEN h1 ELSE history
       /\ last' = Outcome("reopen", id, NoID, err)
       /\ UNCHANGED <<deps, gates, links, runs, closing, adding>>

\* A flag of update is the set of the values it was given with: {} when the
\* flag is absent (cmd.Flags().Changed is false), {v} when it was set to v.
NoFlag == {}
FlagValue(flag) == CHOOSE v \in flag : TRUE

ValidStatuses == {StatusOpen, StatusInProgress, StatusClosed}

\* links of the task with status passed, as runUpdate queries them
PassedLinks(taskID) ==
    {k \in DOMAIN links :
        k[2] = taskID /\ \E i \in 1..Len(links[k]) : links[k][i].status = GateLinkPassed}

\* a guard that lets the status of a closed task be set
UpdateGuardErrorOpenClosed(id, f, tty, answer) ==
    IF ~GetTaskByID(id) THEN "task not found"
    ELSE IF f.title # NoFlag /\ PassedLinks(id) # {}
         THEN IF ~tty THEN "scope-changing update requires interactive confirmation"
              ELSE IF ~Confirmed(answer) THEN "update cancelled"
              ELSE ""
    ELSE ""

\* runUpdate up to its first write
UpdateGuardError(id, f, tty, answer) ==
    IF ~GetTaskByID(id) THEN "task not found"
    ELSE IF IsClosed(tasks[id]) /\ f.status # NoFlag /\ FlagValue(f.status) # StatusClosed
         THEN "cannot change status of closed task"
    ELSE IF f.title # NoFlag /\ PassedLinks(id) # {}
         THEN IF ~tty THEN "scope-changing update requires interactive confirmation"
              ELSE IF ~Confirmed(answer) THEN "update cancelled"
              ELSE ""
    ELSE ""

\* runUpdate: the history entries are written flag by flag, each before the
\* next flag is validated; the task row is saved at the end
runUpdate(id, f, tty, answer) ==
    LET guard == UpdateGuardError(id, f, tty, answer)
        t0 == tasks[id]
        h1 == IF f.title # NoFlag
              THEN RecordChange(history, id, "title", t0.title, FlagValue(f.title), "user")
              ELSE history
        badPriority == f.priority # NoFlag
                       /\ (FlagValue(f.priority) < 0 \/ FlagValue(f.priority) > 4)
        h2 == IF f.priority # NoFlag
              THEN RecordChange(h1, id, "priority", ToString(t0.priority),
                                ToString(FlagValue(f.priority)), "user")
              ELSE h1
        badStatus == f.status # NoFlag /\ FlagValue(f.status) \notin ValidStatuses
        h3 == IF f.status # NoFlag
              THEN RecordChange(h2, id, "status", t0.status, FlagValue(f.status), "user")
              ELSE h2
        err == IF guard # "" THEN guard
               ELSE IF badPriority THEN "invalid priority"
               ELSE IF badStatus THEN "invalid status"
               ELSE ""
        written == IF guard # "" THEN history
                   ELSE IF badPriority THEN h1
                   ELSE IF badStatus THEN h2
                   ELSE h3
        t1 == [t0 EXCEPT
                  !.title = IF f.title # NoFlag THEN FlagValue(f.title) ELSE @,
                  !.priority = IF f.priority # NoFlag THEN FlagValue(f.priority) ELSE @,
                  !.status = IF f.status # NoFlag THEN FlagValue(f.status) ELSE @]
    IN /\ Len(written) <= MaxHist
       /\ tasks' = IF err = "" THEN [tasks EXCEPT ![id] = t1] ELSE tasks
       /\ history' = written
       /\ last' = Outcome("update", id, NoID, err)
       /\ UNCHANGED <<deps, gates, links, runs, closing, adding>>

\* runArchive with a task id
runArchive(id) ==
    LET err == IF ~GetTaskByID(id) THEN "task not found"
               ELSE IF tasks[id].status # StatusClosed THEN "only closed tasks can be archived"
               ELSE ""
    IN /\ tasks' = IF err = "" THEN [tasks EXCEPT ![id] = Archive(@)] ELSE tasks
       /\ last' = Outcome("archive", id, NoID, err)
       /\ UNCHANGED <<deps, gates, links, runs, history, closing, adding>>

\* runArchive without a task id: every closed task when --all is given
runArchiveBulk(all) ==
    LET err == IF ~all THEN "specify a task ID, --all, or --before" ELSE ""
    IN /\ tasks' = IF err = ""
                   THEN [id \in DOMAIN tasks |->
                           IF tasks[id].status = StatusClosed
                           THEN [tasks[id] EXCEPT !.status = StatusArchived]
                           ELSE tasks[id]]
                   ELSE tasks
       /\ last' = Outcome("archive --all", NoID, NoID, err)
       /\ UNCHANGED <<deps, gates, links, runs, history, closing, adding>>

runUnarchive(id) ==
    LET err == IF ~GetTaskByID(id) THEN "task not found"
               ELSE IF tasks[id].status # StatusArchived THEN "task is not archived"
               ELSE ""
    IN /\ tasks' = IF err = "" THEN [tasks EXCEPT ![id] = Unarchive(@)] ELSE tasks
       /\ last' = Outcome("unarchive", id, NoID, err)
       /\ UNCHANGED <<deps, gates, links, runs, history, closing, adding>>

\* runCompact with a task id; with --dry-run it reports and writes nothing
runCompact(id, dryRun) ==
    LET err == IF ~GetTaskByID(id) THEN "task not found"
               ELSE IF tasks[id].status \notin {StatusClosed, StatusArchived}
                    THEN "only closed or archived tasks can be compacted"
               ELSE IF tasks[id].compacted THEN "task already compacted"
               ELSE ""
    IN /\ tasks' = IF err = "" /\ ~dryRun THEN [tasks EXCEPT ![id] = Compact(@)] ELSE tasks
       /\ last' = Outcome(IF dryRun THEN "compact --dry-run" ELSE "compact", id, NoID, err)
       /\ UNCHANGED <<deps, gates, links, runs, history, closing, adding>>

\* runCleanup: the rows that name a task that is not in the tasks table are
\* counted, and deleted unless --dry-run is given; history is not touched
OrphanedDeps == {k \in DOMAIN deps : ~GetTaskByID(k[1]) \/ ~GetTaskByID(k[2])}
OrphanedGateLinks == {k \in DOMAIN links : ~GetTaskByID(k[2])}

runCleanup(dryRun) ==
    LET clean == ~dryRun /\ OrphanedDeps \cup OrphanedGateLinks # {}
    IN /\ deps' = IF clean THEN [k \in DOMAIN deps \ OrphanedDeps |-> deps[k]] ELSE deps
       /\ links' = IF clean THEN [k \in DOMAIN links \ OrphanedGateLinks |-> links[k]]
                   ELSE links
       /\ last' = Outcome(IF dryRun THEN "cleanup --dry-run" ELSE "cleanup", NoID, NoID, "")
       /\ UNCHANGED <<tasks, gates, runs, history, closing, adding>>

\* a create that numbers a subtask with the count of its siblings
CreateIDFromCount(parentID, generated) ==
    IF parentID = NoID THEN generated
    ELSE GenerateSubtaskID(parentID,
            Cardinality({t \in DOMAIN tasks : tasks[t].parent_id = parentID}))

\* runCreate: generated is the identifier GenerateID draws for a root task
CreateID(parentID, generated) ==
    IF parentID = NoID THEN generated
    ELSE GenerateSubtaskID(parentID,
            Cardinality({t \in DOMAIN tasks : tasks[t].parent_id = parentID}) + 1)

CreatePriority(priority) == IF priority >= 0 THEN priority ELSE PriorityMedium

CreateError(parentID, generated, title, priority) ==
    IF title = "" THEN "title is required"
    ELSE IF CreatePriority(priority) > 4 THEN "priority must be between 0 and 4"
    ELSE IF parentID # NoID /\ ~GetTaskByID(parentID) THEN "parent task not found"
    ELSE IF parentID # NoID /\ IsClosed(tasks[parentID])
         THEN "cannot create subtask of closed task"
    ELSE IF GetTaskByID(CreateID(parentID, generated)) THEN "UNIQUE constraint failed"
    ELSE ""

runCreate(parentID, generated, title, priority) ==
    LET err == CreateError(parentID, generated, title, priority)
        id == CreateID(parentID, generated)
    IN /\ err = "" => Cardinality(DOMAIN tasks) < MaxTasks
       /\ tasks' = IF err = ""
                   THEN [t \in DOMAIN tasks \cup {id} |->
                           IF t = id THEN NewTask(parentID, title, CreatePriority(priority))
                           ELSE tasks[t]]
                   ELSE tasks
       /\ last' = Outcome("create", IF err = "" THEN id ELSE NoID, NoID, err)
       /\ UNCHANGED <<deps, gates, links, runs, history, closing, adding>>

-----------------------------------------------------------------------------
(* The dependency commands on a store of three open tasks *)

DepTaskIDs == {<<"A">>, <<"B">>, <<"A", 1>>}
DepCallIDs == DepTaskIDs \cup {<<"B", 1>>}

InitDep ==
    /\ tasks = [id \in DepTaskIDs |->
                  NewTask(IF Len(id) = 1 THEN NoID ELSE SubSeq(id, 1, Len(id) - 1),
                          "t", PriorityMedium)]
    /\ deps = <<>>
    /\ gates = <<>>
    /\ links = <<>>
    /\ runs = <<>>
    /\ history = <<>>
    /\ last = Outcome("init", NoID, NoID, "")
    /\ closing = NoClose
    /\ adding = NoAdd


NextDep ==
    \/ \E x \in DepCallIDs, y \in DepCallIDs, t \in DepTypes \cup {""} : runDepAdd(x, y, t)
    \/ \E x \in DepCallIDs, y \in DepCallIDs : runDepRemove(x, y)

SpecDep == InitDep /\ [][NextDep]_vars

-----------------------------------------------------------------------------
(* The gate commands on a store of two open tasks and two gates.  A store   *)
(* written by an earlier version may hold links with an empty status.      *)

GateTaskIDs == {<<"A">>, <<"B">>}
\* the (gate, task) pairs the gate commands are called with: the gate g3 and the
\* task A.1 do not exist
RunBy == {"human"}
LegacyLink == [status |-> "", verified_at |-> FALSE, verified_by |-> ""]

InitGate ==
    /\ tasks = [id \in GateTaskIDs |-> NewTask(NoID, "t", PriorityMedium)]
    /\ deps = <<>>
    /\ gates = [g \in GateIDs |-> NewGate]
    /\ \E S \in SUBSET {<<<<"g1">>, <<"A">>>>} :
          links = [k \in S |-> <<LegacyLink>>]
    /\ runs = [g \in GateIDs |-> <<>>]
    /\ history = <<>>
    /\ last = Outcome("init", NoID, NoID, "")
    /\ closing = NoClose
    /\ adding = NoAdd

GateCalls ==
    {<<<<"g1">>, <<"A">>>>, <<<<"g1">>, <<"B">>>>, <<<<"g2">>, <<"A">>>>,
     <<<<"g3">>, <<"A">>>>, <<<<"g1">>, <<"A", 1>>>>}


NextGate ==
    \/ \E c \in GateCalls : runGateLink(c[1], c[2])
    \/ \E c \in GateCalls : runGateUnlink(c[1], c[2])
    \/ \E c \in GateCalls, r \in GateResults, by \in RunBy : runGateResult(c[1], c[2], r, by)

SpecGate == InitGate /\ [][NextGate]_vars

-----------------------------------------------------------------------------
(* Inputs of the task commands *)

\* lines typed at the confirmation prompt
AnswerYes == <<"y", "e", "s">>
AnswerYesLoud == <<" ", "Y", "E", "S", "\n">>
AnswerNo == <<"n", "o">>
Answers == {AnswerYes, AnswerYesLoud, AnswerNo}

NoFlags == [title |-> NoFlag, priority |-> NoFlag, status |-> NoFlag]
StatusFlag(s) == [NoFlags EXCEPT !.status = {s}]

\* a link after gate pass
PassedLink == [status |-> GateLinkPassed, verified_at |-> TRUE, verified_by |-> "human"]

-----------------------------------------------------------------------------
(* The life of a task: the store after create A, gate create g1, gate link  *)
(* g1 A and gate pass g1 A, then the task commands on A and B, from an      *)
(* interactive or a non-interactive terminal                                *)

LifeIDs == {<<"A">>, <<"B">>}

Init ==
    /\ tasks = [id \in {<<"A">>} |-> NewTask(NoID, "t", PriorityMedium)]
    /\ deps = <<>>
    /\ gates = [g \in {<<"g1">>} |-> RecordRun(NewGate, GatePassed)]
    /\ links = [k \in {<<<<"g1">>, <<"A">>>>} |-> <<PassedLink>>]
    /\ runs = [g \in {<<"g1">>} |-> <<GatePassed>>]
    /\ history = <<>>
    /\ last = Outcome("init", NoID, NoID, "")
    /\ closing = NoClose
    /\ adding = NoAdd


Next ==
    \/ \E parentID \in {NoID, <<"A">>}, generated \in LifeIDs, title \in {"t", ""} :
           runCreate(parentID, generated, title, -1)
    \/ \E id \in LifeIDs,
           f \in {NoFlags} \cup {StatusFlag(st) : st \in ValidStatuses \cup {StatusArchived}} :
           runUpdate(id, f, FALSE, AnswerNo)
    \/ \E id \in LifeIDs, force \in BOOLEAN, tty \in BOOLEAN, answer \in Answers :
           runClose(id, "done", force, tty, answer)
    \/ \E id \in LifeIDs : runReopen(id)
    \/ \E id \in LifeIDs : runArchive(id)
    \/ \E all \in BOOLEAN : runArchiveBulk(all)
    \/ \E id \in LifeIDs : runUnarchive(id)
    \/ \E id \in LifeIDs : runCompact(id, FALSE)

Spec == Init /\ [][Next]_vars

-----------------------------------------------------------------------------
(* An unattended session (stdin is not a terminal) on two fresh tasks and   *)
(* one gate                                                                 *)

BatchIDs == {<<"A">>, <<"B">>}

InitBatch ==
    /\ tasks = [id \in BatchIDs |-> NewTask(NoID, "t", PriorityMedium)]
    /\ deps = <<>>
    /\ gates = [g \in {<<"g1">>} |-> NewGate]
    /\ links = <<>>
    /\ runs = [g \in {<<"g1">>} |-> <<>>]
    /\ history = <<>>
    /\ last = Outcome("init", NoID, NoID, "")
    /\ closing = NoClose
    /\ adding = NoAdd


NextBatch ==
    \/ \E id \in BatchIDs : runGateLink(<<"g1">>, id)
    \/ \E id \in BatchIDs, r \in {GatePassed, GateFailed} :
           runGateResult(<<"g1">>, id, r, "agent")
    \/ \E id \in BatchIDs, st \in ValidStatuses : runUpdate(id, StatusFlag(st), FALSE, AnswerYes)
    \/ \E id \in BatchIDs, force \in BOOLEAN : runClose(id, "done", force, FALSE, AnswerYes)
    \/ \E id \in BatchIDs : runReopen(id)

SpecBatch == InitBatch /\ [][NextBatch]_vars

-----------------------------------------------------------------------------
(* Closing a blocked task: task A with its gate link, task B and the        *)
(* dependency rows from B to A                                              *)

InitBlock ==
    /\ tasks = [id \in {<<"A">>, <<"B">>} |-> NewTask(NoID, "t", PriorityMedium)]
    /\ deps = <<>>
    /\ gates = [g \in {<<"g1">>} |-> NewGate]
    /\ links = [k \in {<<<<"g1">>, <<"A">>>>} |-> <<NewLink>>]
    /\ runs = [g \in {<<"g1">>} |-> <<>>]
    /\ history = <<>>
    /\ last = Outcome("init", NoID, NoID, "")
    /\ closing = NoClose
    /\ adding = NoAdd


NextBlock ==
    \/ \E t \in DepTypes : runDepAdd(<<"B">>, <<"A">>, t)
    \/ runDepRemove(<<"B">>, <<"A">>)
    \/ \E st \in ValidStatuses : runUpdate(<<"B">>, StatusFlag(st), FALSE, AnswerYes)
    \/ runArchive(<<"B">>)
    \/ \E r \in {GatePassed, GateFailed} : runGateResult(<<"g1">>, <<"A">>, r, "human")
    \/ \E force \in BOOLEAN, tty \in BOOLEAN, answer \in Answers :
           runClose(<<"A">>, "done", force, tty, answer)

SpecBlock == InitBlock /\ [][NextBlock]_vars

-----------------------------------------------------------------------------
(* Closing a parent: task A with its gate link, its subtask A.1 and an      *)
(* open task B that may block A                                             *)

SubIDs == {<<"A">>, <<"A", 1>>}

InitSub ==
    /\ tasks = [id \in {<<"A">>, <<"B">>, <<"A", 1>>} |->
                  NewTask(IF id = <<"A", 1>> THEN <<"A">> ELSE NoID, "t", PriorityMedium)]
    /\ deps = <<>>
    /\ gates = [g \in {<<"g1">>} |-> NewGate]
    /\ links = [k \in {<<<<"g1">>, <<"A">>>>} |-> <<NewLink>>]
    /\ runs = [g \in {<<"g1">>} |-> <<>>]
    /\ history = <<>>
    /\ last = Outcome("init", NoID, NoID, "")
    /\ closing = NoClose
    /\ adding = NoAdd


NextSub ==
    \/ runDepAdd(<<"B">>, <<"A">>, DepTypeBlocks)
    \/ runDepRemove(<<"B">>, <<"A">>)
    \/ \E st \in ValidStatuses : runUpdate(<<"A", 1>>, StatusFlag(st), FALSE, AnswerYes)
    \/ runArchive(<<"A", 1>>)
    \/ \E r \in {GatePassed, GateFailed} : runGateResult(<<"g1">>, <<"A">>, r, "human")
    \/ \E id \in SubIDs, force \in BOOLEAN, tty \in BOOLEAN, answer \in Answers :
           runClose(id, "done", force, tty, answer)

SpecSub == InitSub /\ [][NextSub]_vars

-----------------------------------------------------------------------------
(* Graph of the live rows of one type *)

Edges(type) == {<<k[1], k[2]>> : k \in {k \in DOMAIN deps : k[3] = type}}

RECURSIVE ReachFrom(_, _, _)
ReachFrom(frontier, seen, E) ==
    LET next == {e[2] : e \in {e \in E : e[1] \in frontier}} \ seen
    IN IF next = {} THEN seen ELSE ReachFrom(next, seen \cup next, E)

\* the nodes reachable from n along one or more edges of E
Reachable(n, E) == ReachFrom({n}, {}, E)

Acyclic(E) == \A e \in E : e[1] \notin Reachable(e[1], E)

\* C1: after any sequence of dep add and dep remove calls from a store without
\* dependency rows, the graph of "blocks" edges has no cycle, and a dep add whose
\* blocked task already reaches the blocker is answered with the circular
\* dependency error.
C1_BlocksGraphAcyclic ==
    /\ Acyclic(Edges(DepTypeBlocks))
    /\ \A x \in DOMAIN tasks, y \in DOMAIN tasks :
          (x # y /\ x \in Reachable(y, Edges(DepTypeBlocks)))
              => DepAddError(x, y) = "circular dependency detected"

\* a chain of two blocks edges is in the store and the edge closing it was refused
C1_Witness ==
    /\ last.cmd = "dep add" /\ last.err = "circular dependency detected"
    /\ <<last.b, last.a>> \notin Edges(DepTypeBlocks)
    /\ last.a \in Reachable(last.b, Edges(DepTypeBlocks))

-----------------------------------------------------------------------------
(* Close readiness *)

LinksOfTask(t) == {k \in DOMAIN links : k[2] = t}

\* the statuses of the rows that link a gate to t
LinkStatuses(t) ==
    UNION {{links[k][i].status : i \in 1..Len(links[k])} : k \in LinksOfTask(t)}

IsGateResult(o) == o.cmd \in {"gate pass", "gate fail", "gate skip"} /\ o.err = ""

-----------------------------------------------------------------------------
(* The close workflow *)

\* every link of the task is passed and there is at least one
GatesReady(t) ==
    LinksOfTask(t) # {} /\ LinkStatuses(t) = {GateLinkPassed}

\* the tasks that block t through a row of type blocks and are not closed
OpenBlockers(t) ==
    {x \in DOMAIN tasks : tasks[x].status # StatusClosed /\ <<x, t>> \in Edges(DepTypeBlocks)}

\* the direct subtasks of p that are not closed
NonClosedSubtasks(p) ==
    {t \in DOMAIN tasks : tasks[t].parent_id = p /\ tasks[t].status # StatusClosed}

Unclosed(t) == tasks[t].status \in {StatusOpen, StatusInProgress}

\* C2: with stdin not a terminal, no command moves a task from open or
\* in_progress to closed while the task has no gate link or has a link that is
\* not passed.
C2_NoCloseWithoutPassedGates ==
    [][\A t \in DOMAIN tasks :
          (Unclosed(t) /\ tasks'[t].status = StatusClosed) => GatesReady(t)]_vars

\* C3 as stated: close --force of a task that has an open blocker or a
\* non-closed direct subtask is rejected and the task is not closed by it.
C3_ForceNeverOverridesBlockers ==
    [][(/\ last'.cmd = "close --force"
        /\ GetTaskByID(last'.a)
        /\ (OpenBlockers(last'.a) # {} \/ NonClosedSubtasks(last'.a) # {}))
         => (last'.err # "" /\ tasks' = tasks)]_vars

\* C3 amended: for a task that is not closed and has an open blocker or a
\* non-closed direct subtask, close --force is decided by the gate check alone:
\* it succeeds when every link is passed, and otherwise exactly when stdin is
\* a terminal and the answer is yes; a successful call closes the task, a
\* rejected one changes nothing and is never rejected for blockers or subtasks.
C3_ForceSkipsBlockerAndSubtaskChecks ==
    /\ [](\A t \in DOMAIN tasks :
            (~IsClosed(tasks[t]) /\ (OpenBlockers(t) # {} \/ NonClosedSubtasks(t) # {}))
              => \A tty \in BOOLEAN, answer \in Answers :
                    (CloseError(t, TRUE, tty, answer) = "")
                        <=> (GatesReady(t) \/ (tty /\ answer # AnswerNo)))
    /\ [][(/\ last'.cmd = "close --force"
           /\ GetTaskByID(last'.a)
           /\ ~IsClosed(tasks[last'.a])
           /\ (OpenBlockers(last'.a) # {} \/ NonClosedSubtasks(last'.a) # {}))
            => /\ last'.err \notin {"blocked by open tasks", "has open subtasks"}
               /\ GatesReady(last'.a) => last'.err = ""
               /\ last'.err = "" => tasks'[last'.a].status = StatusClosed
               /\ last'.err # "" => tasks' = tasks /\ history' = history]_vars

\* task A was closed with --force, without a confirmation, while B blocks it and
\* its subtask A.1 is open
C3_Witness ==
    /\ last = Outcome("close --force", <<"A">>, NoID, "")
    /\ tasks[<<"A">>].status = StatusClosed
    /\ tasks[<<"A">>].close_reason = "done"
    /\ <<"B">> \in OpenBlockers(<<"A">>)
    /\ <<"A", 1>> \in NonClosedSubtasks(<<"A">>)

\* C6: a closed task has closed_at and close_reason set, an open or in_progress
\* task has both unset, and a task keeps both while it is or becomes archived.
C6_CloseMetadataMatchesStatus ==
    /\ [](\A t \in DOMAIN tasks :
            /\ tasks[t].status = StatusClosed
                  => (tasks[t].closed_at /\ tasks[t].close_reason # "")
            /\ Unclosed(t) => (~tasks[t].closed_at /\ tasks[t].close_reason = ""))
    /\ [][\A t \in DOMAIN tasks :
            tasks'[t].status = StatusArchived
                => /\ tasks'[t].closed_at = tasks[t].closed_at
                   /\ tasks'[t].close_reason = tasks[t].close_reason]_vars

AllowedTransitions ==
    {<<StatusOpen, StatusInProgress>>, <<StatusInProgress, StatusOpen>>,
     <<StatusOpen, StatusClosed>>, <<StatusInProgress, StatusClosed>>,
     <<StatusClosed, StatusOpen>>, <<StatusClosed, StatusArchived>>,
     <<StatusArchived, StatusClosed>>}

\* C7: the status of a task changes only along open <-> in_progress,
\* open/in_progress -> closed, closed -> open, closed -> archived and
\* archived -> closed, and the status of an archived task changes only by
\* unarchive.
C7_StatusTransitions ==
    [][\A t \in DOMAIN tasks :
          tasks'[t].status # tasks[t].status
            => /\ <<tasks[t].status, tasks'[t].status>> \in AllowedTransitions
               /\ tasks[t].status = StatusArchived => last'.cmd = "unarchive"]_vars

\* C8: a close without force of a task that some task with a status other than
\* closed blocks through a row of type blocks is rejected and changes neither
\* the tasks nor the history; the rejection for blockers is never given when
\* the only rows onto the task from such tasks are of type related or
\* parent-child, and a task that is ready otherwise is then closed.
C8_OpenBlockerRejectsClose ==
    [][(last'.cmd = "close" /\ GetTaskByID(last'.a))
         => /\ OpenBlockers(last'.a) # {}
                 => (last'.err # "" /\ tasks' = tasks /\ history' = history)
            /\ last'.err = "blocked by open tasks" => OpenBlockers(last'.a) # {}
            /\ (/\ OpenBlockers(last'.a) = {}
                /\ ~IsClosed(tasks[last'.a])
                /\ NonClosedSubtasks(last'.a) = {}
                /\ GatesReady(last'.a))
                 => (last'.err = "" /\ tasks'[last'.a].status = StatusClosed)]_vars

\* the close of A, whose gate is passed, was rejected for its blocker B, which
\* is in progress
C8_Witness ==
    /\ last = Outcome("close", <<"A">>, NoID, "blocked by open tasks")
    /\ GatesReady(<<"A">>)
    /\ tasks[<<"B">>].status = StatusInProgress
    /\ OpenBlockers(<<"A">>) = {<<"B">>}
    /\ tasks[<<"A">>].status = StatusOpen
    /\ history # <<>>

\* C9: a close without force of a task with a direct subtask that is not
\* closed is rejected and changes no task; a close without force of a task that
\* is not closed, whose direct subtasks are all closed, that has no open
\* blocker and whose links are all passed succeeds and closes it.
C9_SubtasksGateParentClose ==
    [][(last'.cmd = "close" /\ GetTaskByID(last'.a))
         => /\ NonClosedSubtasks(last'.a) # {} => (last'.err # "" /\ tasks' = tasks)
            /\ (/\ NonClosedSubtasks(last'.a) = {}
                /\ ~IsClosed(tasks[last'.a])
                /\ OpenBlockers(last'.a) = {}
                /\ GatesReady(last'.a))
                 => (last'.err = "" /\ tasks'[last'.a].status = StatusClosed)]_vars

\* the parent A was closed without force after its subtask A.1 had been closed
C9_Witness ==
    /\ last = Outcome("close", <<"A">>, NoID, "")
    /\ tasks[<<"A">>].status = StatusClosed
    /\ tasks[<<"A", 1>>].parent_id = <<"A">>
    /\ tasks[<<"A", 1>>].status = StatusClosed
    /\ Len(history) >= 3
    /\ history[1].task_id = <<"A", 1>>

\* C10: a close without force fails for a task without links and for a task
\* with a pending link; a new link is pending; with every link passed, no open
\* blocker and no non-closed subtask, the close of a task that is not closed
\* succeeds and leaves it closed with the given reason as close_reason.
C10_LinkPassClose ==
    [][/\ (last'.cmd = "close" /\ GetTaskByID(last'.a))
            => /\ LinksOfTask(last'.a) = {} => (last'.err # "" /\ tasks' = tasks)
               /\ GateLinkPending \in LinkStatuses(last'.a)
                     => (last'.err # "" /\ tasks' = tasks)
               /\ (/\ GatesReady(last'.a)
                   /\ ~IsClosed(tasks[last'.a])
                   /\ OpenBlockers(last'.a) = {}
                   /\ NonClosedSubtasks(last'.a) = {})
                     => /\ last'.err = ""
                        /\ tasks'[last'.a].status = StatusClosed
                        /\ tasks'[last'.a].close_reason = "done"
                        /\ tasks'[last'.a].closed_at
       /\ (last'.cmd = "gate link" /\ last'.err = "")
            => links'[<<last'.b, last'.a>>] = <<NewLink>>]_vars

\* task A was linked, verified and closed, without the force flag: the audit
\* trail holds the two entries of that close and nothing else
C10_Witness ==
    /\ last = Outcome("close", <<"A">>, NoID, "")
    /\ tasks[<<"A">>].status = StatusClosed
    /\ tasks[<<"A">>].close_reason = "done"
    /\ tasks[<<"A">>].closed_at
    /\ Len(history) = 2
    /\ history[1].field = "status" /\ history[1].old_value = StatusOpen
    /\ history[2].field = "close_reason" /\ history[2].new_value = "done"
    /\ GatesReady(<<"A">>)
-----------------------------------------------------------------------------
\* C11: a successful close of task T with the reason "done" leaves T closed
\* with closed_at set and close_reason equal to the stored reason (the reason,
\* prefixed with "[FORCE CLOSED] " when force bypassed a failing gate check),
\* appends exactly two history entries for T (status old -> closed, then
\* close_reason "" -> stored reason) and changes no other task, no dependency
\* row and no gate link.
C11_CloseEffects ==
    [][(last'.cmd \in {"close", "close --force"} /\ last'.err = "")
        => LET t == last'.a
               stored == IF last'.cmd = "close --force" /\ ~GatesReady(t)
                         THEN "[FORCE CLOSED] done" ELSE "done"
               entry(field, old, new) ==
                   [task_id |-> t, field |-> field, old_value |-> old,
                    new_value |-> new, changed_by |-> "user"]
           IN /\ tasks'[t].status = StatusClosed
              /\ tasks'[t].closed_at
              /\ tasks'[t].close_reason = stored
              /\ history' = history \o <<entry("status", tasks[t].status, StatusClosed),
                                         entry("close_reason", "", stored)>>
              /\ DOMAIN tasks' = DOMAIN tasks
              /\ \A u \in DOMAIN tasks \ {t} : tasks'[u] = tasks[u]
              /\ deps' = deps
              /\ links' = links]_vars

\* A was force-closed past a pending gate while B blocks it and its link exists
C11_Witness ==
    /\ last.cmd = "close --force" /\ last.err = "" /\ last.a = <<"A">>
    /\ tasks[<<"A">>].status = StatusClosed
    /\ tasks[<<"A">>].close_reason = "[FORCE CLOSED] done"
    /\ Len(history) >= 2
    /\ history[Len(history)].field = "close_reason"
    /\ <<<<"B">>, <<"A">>>> \in Edges(DepTypeBlocks)
    /\ tasks[<<"A", 1>>].status = StatusOpen
    /\ <<<<"g1">>, <<"A">>>> \in DOMAIN links

-----------------------------------------------------------------------------
\* C12: a close of a task whose status is closed fails, with or without
\* force, and leaves every task (status, close_reason, closed_at) and the
\* history unchanged.
C12_CloseOfClosedFails ==
    [][(/\ last'.cmd \in {"close", "close --force"}
        /\ last'.a \in DOMAIN tasks
        /\ tasks[last'.a].status = StatusClosed)
        => (last'.err # "" /\ tasks' = tasks /\ history' = history)]_vars

\* a forced close was refused on a task closed earlier by close
C12_Witness ==
    /\ last.cmd = "close --force" /\ last.err = "already closed"
    /\ last.a \in DOMAIN tasks
    /\ tasks[last.a].status = StatusClosed
    /\ tasks[last.a].close_reason = "done"
    /\ tasks[last.a].closed_at

-----------------------------------------------------------------------------
\* C13: a dep add or dep remove that returns an error (self-dependency,
\* cycle, unknown id, no such edge) leaves the dependency rows unchanged; in
\* particular, after dep add A B succeeded and dep add B A was rejected as a
\* cycle, every row is still an A -> B row.
C13_FailedDepCallKeepsEdges ==
    [][(last'.cmd \in {"dep add", "dep remove"} /\ last'.err # "")
        => deps' = deps]_vars

\* dep add B A was rejected as a cycle and the graph holds exactly A -> B
C13_Witness ==
    /\ last = Outcome("dep add", <<"B">>, <<"A">>, "circular dependency detected")
    /\ DOMAIN deps = {<<<<"A">>, <<"B">>, DepTypeBlocks>>}
    /\ deps[<<<<"A">>, <<"B">>, DepTypeBlocks>>] = 1

-----------------------------------------------------------------------------
\* C14: dep add x y on two existing, different tasks is rejected as a cycle
\* exactly when x is reachable from y along rows of type blocks alone; rows of
\* type related or parent-child are not followed and never cause the
\* rejection.
C14_CycleIffBlocksPath ==
    [][(/\ last'.cmd = "dep add"
        /\ last'.a \in DOMAIN tasks /\ last'.b \in DOMAIN tasks
        /\ last'.a # last'.b)
        => ((last'.err = "circular dependency detected")
              <=> last'.a \in Reachable(last'.b, Edges(DepTypeBlocks)))]_vars

-----------------------------------------------------------------------------
\* C15: reopen of an existing task T fails when the status of T is not closed
\* (open, in_progress or archived) and then leaves every task and the history
\* unchanged; when T is closed it succeeds, sets the status to open, clears
\* close_reason and closed_at and appends exactly one history entry
\* (status, closed -> open).
C15_ReopenOnlyFromClosed ==
    [][(last'.cmd = "reopen" /\ last'.a \in DOMAIN tasks)
        => LET t == last'.a
           IN IF tasks[t].status = StatusClosed
              THEN /\ last'.err = ""
                   /\ tasks'[t].status = StatusOpen
                   /\ tasks'[t].close_reason = ""
                   /\ ~tasks'[t].closed_at
                   /\ history' = Append(history,
                          [task_id |-> t, field |-> "status", old_value |-> StatusClosed,
                           new_value |-> StatusOpen, changed_by |-> "user"])
              ELSE /\ last'.err # ""
                   /\ tasks' = tasks
                   /\ history' = history]_vars

\* A was closed with a reason and then reopened
C15_Witness ==
    /\ last = Outcome("reopen", <<"A">>, NoID, "")
    /\ tasks[<<"A">>].status = StatusOpen
    /\ tasks[<<"A">>].close_reason = ""
    /\ Len(history) >= 3
    /\ history[Len(history) - 1].field = "close_reason"
    /\ history[Len(history) - 1].new_value = "done"
    /\ history[Len(history)].old_value = StatusClosed

-----------------------------------------------------------------------------
\* C16: archive of an existing task succeeds exactly when its status is
\* closed and unarchive exactly when its status is archived; a failing call
\* leaves every task unchanged; a successful one changes the status of that
\* task alone (closed -> archived, archived -> closed), so archive followed by
\* unarchive returns the task to closed with the same close_reason and
\* closed_at; a bulk archive changes closed tasks only, and only their status.
C16_ArchiveRoundTrip ==
    [][/\ (last'.cmd \in {"archive", "unarchive"} /\ last'.a \in DOMAIN tasks)
            => LET t == last'.a
                   from == IF last'.cmd = "archive" THEN StatusClosed ELSE StatusArchived
                   to == IF last'.cmd = "archive" THEN StatusArchived ELSE StatusClosed
               IN /\ (last'.err = "") <=> (tasks[t].status = from)
                  /\ last'.err = "" => tasks' = [tasks EXCEPT ![t].status = to]
                  /\ last'.err # "" => tasks' = tasks
       /\ (last'.cmd = "archive --all")
            => /\ DOMAIN tasks' = DOMAIN tasks
               /\ \A t \in DOMAIN tasks :
                     tasks'[t] # tasks[t]
                       => /\ tasks[t].status = StatusClosed
                          /\ tasks'[t] = [tasks[t] EXCEPT !.status = StatusArchived]]_vars

\* A was closed with a reason, archived, and is closed again after unarchive
C16_Witness ==
    /\ last = Outcome("unarchive", <<"A">>, NoID, "")
    /\ tasks[<<"A">>].status = StatusClosed
    /\ tasks[<<"A">>].close_reason = "done"
    /\ tasks[<<"A">>].closed_at

-----------------------------------------------------------------------------
\* C17: gate link G T fails when G is unknown, when T is unknown or when a
\* live link from G to T exists, and otherwise creates one link with status
\* pending; hence, after any sequence of link, unlink and verification calls,
\* every (gate, task) pair has at most one live link.
C17_OneLinkPerPair ==
    /\ [](\A k \in DOMAIN links : Len(links[k]) = 1)
    /\ [][(last'.cmd = "gate link")
            => LET key == <<last'.b, last'.a>>
                   refused == \/ last'.b \notin DOMAIN gates
                              \/ last'.a \notin DOMAIN tasks
                              \/ key \in DOMAIN links
               IN /\ (last'.err # "") <=> refused
                  /\ refused => links' = links
                  /\ ~refused
                       => /\ DOMAIN links' = DOMAIN links \cup {key}
                          /\ links'[key][1].status = GateLinkPending
                          /\ \A k \in DOMAIN links : links'[k] = links[k]]_vars

\* a second gate link g1 B was refused while the link of the pair is verified
C17_Witness ==
    /\ last = Outcome("gate link", <<"B">>, <<"g1">>, "already linked")
    /\ Len(links[<<<<"g1">>, <<"B">>>>]) = 1
    /\ links[<<<<"g1">>, <<"B">>>>][1].status = GateLinkPassed

-----------------------------------------------------------------------------
\* C18: gate pass, gate fail and gate skip fail exactly when the gate is
\* unknown, the task is unknown or the gate is not linked to the task, and a
\* failed call changes no link, no gate counter (run_count, pass_count,
\* fail_count, last_result) and no run record.
C18_FailedVerificationWritesNothing ==
    [][(last'.cmd \in {"gate pass", "gate fail", "gate skip"})
        => LET refused == \/ last'.b \notin DOMAIN gates
                          \/ last'.a \notin DOMAIN tasks
                          \/ <<last'.b, last'.a>> \notin DOMAIN links
           IN /\ (last'.err # "") <=> refused
              /\ refused => (links' = links /\ gates' = gates /\ runs' = runs)]_vars

\* gate pass g1 B was refused for want of a link after g1 had run for A
C18_Witness ==
    /\ last = Outcome("gate pass", <<"B">>, <<"g1">>, "not linked")
    /\ gates[<<"g1">>].run_count = 1
    /\ gates[<<"g1">>].last_result = GateFailed
    /\ Len(runs[<<"g1">>]) = 1
    /\ links[<<<<"g1">>, <<"A">>>>][1].status = GateLinkFailed

-----------------------------------------------------------------------------
\* C19: a successful gate pass, gate fail or gate skip of gate G for task T
\* leaves exactly one link for (G, T), whose status is the result of that
\* call whatever the status was before; so a passed link returns to failed or
\* skipped, and after such a call the gate check of T fails again.
C19_LinkHoldsLatestResult ==
    [][IsGateResult(last')
        => LET key == <<last'.b, last'.a>>
               result == CASE last'.cmd = "gate pass" -> "passed"
                           [] last'.cmd = "gate fail" -> "failed"
                           [] OTHER -> "skipped"
           IN /\ key \in DOMAIN links'
              /\ Len(links'[key]) = 1
              /\ links'[key][1].status = result
              /\ result # "passed"
                   => \A t \in DOMAIN tasks :
                         t = last'.a => CheckGatesBeforeClose(t)' # ""]_vars

\* the link (g1, A) was passed, then skipped: A is not ready to close
C19_Witness ==
    /\ last = Outcome("gate skip", <<"A">>, <<"g1">>, "")
    /\ runs[<<"g1">>] = <<GatePassed, GateSkipped>>
    /\ links[<<<<"g1">>, <<"A">>>>][1].status = GateSkipped
    /\ <<<<"g1">>, <<"B">>>> \notin DOMAIN links
    /\ CheckGatesBeforeClose(<<"A">>) # ""

-----------------------------------------------------------------------------
\* the number of run records of gate g with the given result
RunsWith(g, result) == Cardinality({i \in 1..Len(runs[g]) : runs[g][i] = result})

\* C20: for every gate, run_count is the number of its run records,
\* pass_count the number of those with result passed and fail_count the
\* number with result failed (a skipped run counts in run_count only), and
\* last_result is the result of the latest run; hence pass_count + fail_count
\* <= run_count. Each successful verification adds one run record, with its
\* result, to its gate and none to another gate.
C20_GateCountersMatchRuns ==
    /\ [](\A g \in DOMAIN gates :
            /\ gates[g].run_count = Len(runs[g])
            /\ gates[g].pass_count = RunsWith(g, "passed")
            /\ gates[g].fail_count = RunsWith(g, "failed")
            /\ gates[g].last_result =
                  (IF runs[g] = <<>> THEN "pending" ELSE runs[g][Len(runs[g])])
            /\ gates[g].pass_count + gates[g].fail_count <= gates[g].run_count)
    /\ [][IsGateResult(last')
            => LET result == CASE last'.cmd = "gate pass" -> "passed"
                               [] last'.cmd = "gate fail" -> "failed"
                               [] OTHER -> "skipped"
               IN /\ runs' = [runs EXCEPT ![last'.b] = Append(@, result)]
                  /\ \A g \in DOMAIN gates \ {last'.b} : gates'[g] = gates[g]]_vars

\* g1 ran twice, passed then skipped: the skip raised run_count alone
C20_Witness ==
    /\ runs[<<"g1">>] = <<GatePassed, GateSkipped>>
    /\ gates[<<"g1">>].run_count = 2
    /\ gates[<<"g1">>].pass_count = 1
    /\ gates[<<"g1">>].fail_count = 0
    /\ gates[<<"g1">>].last_result = GateSkipped

-----------------------------------------------------------------------------
(* The audit trail alone: RecordChange called with every combination of a   *)
(* task id, a field, an old value, a new value and an actor                 *)

HistTaskIDs == {<<"A">>, <<"B">>}
HistFields == {"status", "title"}
HistValues == {"open", "closed"}
HistActors == {"user"}

InitHist ==
    /\ tasks = <<>>
    /\ deps = <<>>
    /\ gates = <<>>
    /\ links = <<>>
    /\ runs = <<>>
    /\ history = <<>>
    /\ last = Outcome("init", NoID, NoID, "")
    /\ closing = NoClose
    /\ adding = NoAdd

\* one call of RecordChange; last.b keeps the field, the two values and the actor
HistRecord ==
    \E taskID \in HistTaskIDs, field \in HistFields,
       oldValue \in HistValues, newValue \in HistValues, changedBy \in HistActors :
        /\ Len(history) < MaxHist
        /\ history' = RecordChange(history, taskID, field, oldValue, newValue, changedBy)
        /\ last' = Outcome("RecordChange", taskID, <<field, oldValue, newValue, changedBy>>, "")
        /\ UNCHANGED <<tasks, deps, gates, links, runs, closing, adding>>

NextHist == HistRecord

SpecHist == InitHist /\ [][NextHist]_vars

\* C21: RecordChange(task, field, old, new, actor) appends no history entry
\* when old equals new, and appends exactly one entry that carries task,
\* field, old, new and actor when old differs from new.
C21_RecordChangeOnDifference ==
    [][(last'.cmd = "RecordChange")
        => IF last'.b[2] = last'.b[3]
           THEN history' = history
           ELSE /\ Len(history') = Len(history) + 1
                /\ SubSeq(history', 1, Len(history)) = history
                /\ history'[Len(history')] =
                      [task_id |-> last'.a, field |-> last'.b[1], old_value |-> last'.b[2],
                       new_value |-> last'.b[3], changed_by |-> last'.b[4]]]_vars

\* a call with equal values came after a call that had appended an entry
C21_Witness ==
    /\ last.cmd = "RecordChange"
    /\ last.b[2] = last.b[3]
    /\ Len(history) = 1
    /\ history[1].old_value # history[1].new_value

-----------------------------------------------------------------------------
\* the positions of the history entries of task t for the field status
StatusEntries(h, t) == {i \in 1..Len(h) : h[i].task_id = t /\ h[i].field = "status"}

\* C22: every step that changes the status of a task appends exactly one
\* history entry with field status for it, with the status before as old
\* value and the status after as new value; hence, whenever a task has status
\* entries, the new value of the newest one is the current status of the task.
C22_StatusChangesRecorded ==
    /\ [](\A t \in DOMAIN tasks :
            StatusEntries(history, t) # {}
              => LET newest == CHOOSE i \in StatusEntries(history, t) :
                                  \A j \in StatusEntries(history, t) : j <= i
                 IN history[newest].new_value = tasks[t].status)
    /\ [][\A t \in DOMAIN tasks :
            (t \in DOMAIN tasks' /\ tasks'[t].status # tasks[t].status)
              => /\ SubSeq(history', 1, Len(history)) = history
                 /\ \E i \in StatusEntries(history', t) :
                       /\ StatusEntries(history', t) \ StatusEntries(history, t) = {i}
                       /\ history'[i].old_value = tasks[t].status
                       /\ history'[i].new_value = tasks'[t].status]_vars

-----------------------------------------------------------------------------
(* The audit trail under the commands that write it: task A with a pending  *)
(* gate link, updated, closed, reopened, archived and cleaned up            *)

AuditFlags ==
    [title : {NoFlag, {"u"}}, priority : {NoFlag, {9}}, status : {NoFlag, {StatusClosed}, {"done"}}]

InitAudit ==
    /\ tasks = [id \in {<<"A">>} |-> NewTask(NoID, "t", PriorityMedium)]
    /\ deps = <<>>
    /\ gates = [g \in {<<"g1">>} |-> NewGate]
    /\ links = [k \in {<<<<"g1">>, <<"A">>>>} |-> <<NewLink>>]
    /\ runs = [g \in {<<"g1">>} |-> <<>>]
    /\ history = <<>>
    /\ last = Outcome("init", NoID, NoID, "")
    /\ closing = NoClose
    /\ adding = NoAdd


NextAudit ==
    \/ runGateResult(<<"g1">>, <<"A">>, GatePassed, "human")
    \/ \E f \in AuditFlags, tty \in BOOLEAN, answer \in {AnswerYes, AnswerNo} :
           runUpdate(<<"A">>, f, tty, answer)
    \/ \E force \in BOOLEAN, tty \in BOOLEAN, answer \in {AnswerYes, AnswerNo} :
           runClose(<<"A">>, "done", force, tty, answer)
    \/ runReopen(<<"A">>)
    \/ runArchive(<<"A">>)
    \/ runUnarchive(<<"A">>)
    \/ \E dryRun \in BOOLEAN : runCleanup(dryRun)

SpecAudit == InitAudit /\ [][NextAudit]_vars

\* the history entries of task t, in creation order
HistoryOf(h, t) == SelectSeq(h, LAMBDA entry : entry.task_id = t)

IsPrefix(s, t) == Len(s) <= Len(t) /\ SubSeq(t, 1, Len(s)) = s

\* C23: no step removes or modifies a history entry: for every task, the
\* sequence of its history entries before the step is a prefix, in creation
\* order, of the sequence after it.
C23_HistoryAppendOnly ==
    [][\A t \in DOMAIN tasks : IsPrefix(HistoryOf(history, t), HistoryOf(history', t))]_vars

\* A was closed and reopened: two status entries of A, the older one kept
C23_Witness ==
    /\ last = Outcome("reopen", <<"A">>, NoID, "")
    /\ Len(HistoryOf(history, <<"A">>)) >= 3
    /\ history[1].field = "status" /\ history[1].new_value = StatusClosed
    /\ history[Len(history)].field = "status"
    /\ history[Len(history)].new_value = StatusOpen

-----------------------------------------------------------------------------
\* C24: an update or a close that returns an error (priority outside 0..4,
\* status outside the allowed set, closed-task guard, refused or cancelled
\* confirmation) has changed no task field and appended no history entry.
C24_FailedCallWritesNothing ==
    [][(last'.cmd \in {"update", "close", "close --force"} /\ last'.err # "")
        => (tasks' = tasks /\ history' = history)]_vars

-----------------------------------------------------------------------------
(* Two processes: one closes task A without --force, store call by store    *)
(* call, while the other adds and removes the edge B -> A, moves B and      *)
(* reopens A                                                                *)

InitRace ==
    /\ tasks = [id \in {<<"A">>, <<"B">>} |-> NewTask(NoID, "t", PriorityMedium)]
    /\ deps = <<>>
    /\ gates = [g \in {<<"g1">>} |-> RecordRun(NewGate, GatePassed)]
    /\ links = [k \in {<<<<"g1">>, <<"A">>>>} |-> <<PassedLink>>]
    /\ runs = [g \in {<<"g1">>} |-> <<GatePassed>>]
    /\ history = <<>>
    /\ last = Outcome("init", NoID, NoID, "")
    /\ closing = NoClose
    /\ adding = NoAdd


NextRace ==
    \/ \E type \in DepTypes : runDepAdd(<<"B">>, <<"A">>, type)
    \/ runDepRemove(<<"B">>, <<"A">>)
    \/ \E st \in ValidStatuses : runUpdate(<<"B">>, StatusFlag(st), FALSE, AnswerNo)
    \/ runReopen(<<"A">>)
    \/ runCloseLoad(<<"A">>)
    \/ runCloseBlockers
    \/ runCloseSubtasks
    \/ runCloseGates
    \/ runCloseWrite("done")

SpecRace == InitRace /\ [][NextRace]_vars

\* C25: with two processes whose store calls interleave, a close without
\* --force that counts the open blockers of T while there is one is refused,
\* but its write, once the checks are behind it, is applied whatever the
\* store holds by then: it commits status closed also when a blocks edge from
\* an open task onto T was committed after the blocker check.
C25_CloseCommitsPastLateBlocker ==
    [][/\ (closing.pc = "blockers" /\ closing' # closing /\ OpenBlockers(closing.id) # {})
            => (closing'.pc = "idle" /\ last'.err = "blocked by open tasks"
                /\ tasks' = tasks)
       /\ (closing.pc = "write" /\ closing'.pc = "idle" /\ OpenBlockers(closing.id) # {})
            => (last' = Outcome("close", closing.id, NoID, "")
                /\ tasks'[closing.id].status = StatusClosed)]_vars

\* the close of A was committed while the open task B blocks A
C25_Witness ==
    /\ last = Outcome("close", <<"A">>, NoID, "")
    /\ closing.pc = "idle"
    /\ tasks[<<"A">>].status = StatusClosed
    /\ <<"B">> \in OpenBlockers(<<"A">>)
    /\ tasks[<<"B">>].status = StatusOpen

-----------------------------------------------------------------------------
(* Task identifiers as text (models.GenerateSubtaskID, GetRootID,           *)
(* GetParentID, GetDepth): an identifier is the sequence of its characters  *)

MaxDepth == 4       \* nesting depth of the identifiers built

IDPrefix == <<"g", "u", "r", "-">>
IDHexLength == 8

DigitChars == <<"0", "1", "2", "3", "4", "5", "6", "7", "8", "9">>

\* fmt.Sprintf("%d", n) for n >= 0
RECURSIVE FormatInt(_)
FormatInt(n) ==
    IF n < 10 THEN <<DigitChars[n + 1]>>
    ELSE FormatInt(n \div 10) \o <<DigitChars[(n % 10) + 1]>>

\* GenerateSubtaskID on text: fmt.Sprintf("%s.%d", parentID, subtaskNumber)
SubtaskIDText(parentID, subtaskNumber) == parentID \o <<".">> \o FormatInt(subtaskNumber)

\* GetRootID: cut at the first dot at or after index len(IDPrefix) + 8
GetRootID(id) ==
    LET dots == {i \in (Len(IDPrefix) + IDHexLength + 1)..Len(id) : id[i] = "."}
    IN IF dots = {} THEN id
       ELSE SubSeq(id, 1, (CHOOSE i \in dots : \A j \in dots : i <= j) - 1)

\* a GetParentID that cuts at the first dot
GetParentIDFirstDot(id) ==
    LET dots == {i \in 1..Len(id) : id[i] = "."}
    IN IF dots = {} THEN <<>>
       ELSE SubSeq(id, 1, (CHOOSE i \in dots : \A j \in dots : i <= j) - 1)

\* GetParentID: cut at the last dot; empty for an identifier without a dot
GetParentID(id) ==
    LET dots == {i \in 1..Len(id) : id[i] = "."}
    IN IF dots = {} THEN <<>>
       ELSE SubSeq(id, 1, (CHOOSE i \in dots : \A j \in dots : j <= i) - 1)

\* GetDepth: the number of dots
GetDepth(id) == Cardinality({i \in 1..Len(id) : id[i] = "."})

\* root identifiers as GenerateID builds them: the prefix and eight hex digits
RootTexts ==
    {IDPrefix \o <<"a", "1", "b", "2", "c", "3", "d", "4">>,
     IDPrefix \o <<"0", "0", "0", "0", "0", "0", "0", "0">>}
SubtaskNumbers == {1, 2, 10}

\* last.a is the identifier a subtask identifier was derived from, last.b the
\* derived identifier
InitID ==
    /\ tasks = <<>>
    /\ deps = <<>>
    /\ gates = <<>>
    /\ links = <<>>
    /\ runs = <<>>
    /\ history = <<>>
    /\ \E root \in RootTexts : last = Outcome("GenerateID", <<>>, root, "")
    /\ closing = NoClose
    /\ adding = NoAdd

IDDerive ==
    \E n \in SubtaskNumbers :
        /\ GetDepth(last.b) < MaxDepth
        /\ last' = Outcome("GenerateSubtaskID", last.b, SubtaskIDText(last.b, n), "")
        /\ UNCHANGED <<tasks, deps, gates, links, runs, history, closing, adding>>

NextID == IDDerive

SpecID == InitID /\ [][NextID]_vars

\* C26: for an identifier id = GenerateSubtaskID(p, n) built from a
\* well-formed p and a positive n, GetParentID(id) = p, GetRootID(id) =
\* GetRootID(p) and GetDepth(id) = GetDepth(p) + 1, at any nesting depth; for
\* a root identifier GetParentID is empty, GetRootID is the identifier itself
\* and GetDepth is 0.
C26_AncestryRoundTrip ==
    /\ last.cmd = "GenerateSubtaskID"
         => /\ GetParentID(last.b) = last.a
            /\ GetRootID(last.b) = GetRootID(last.a)
            /\ GetRootID(last.b) \in RootTexts
            /\ GetDepth(last.b) = GetDepth(last.a) + 1
    /\ last.cmd = "GenerateID"
         => /\ GetParentID(last.b) = <<>>
            /\ GetRootID(last.b) = last.b
            /\ GetDepth(last.b) = 0

\* an identifier of depth 3 whose last ordinal is 10
C26_Witness ==
    /\ last.cmd = "GenerateSubtaskID"
    /\ GetDepth(last.b) = 3
    /\ SubSeq(last.b, Len(last.b) - 2, Len(last.b)) = <<".", "1", "0">>
    /\ GetDepth(GetParentID(last.b)) = 2

-----------------------------------------------------------------------------
(* Creating tasks and subtasks: task A, then create with and without a      *)
(* parent, valid and invalid priorities, and updates of A                   *)

TreeParents == {NoID, <<"A">>, <<"A", 1>>, <<"B">>}
TreePriorities == {-1, -3, 0, 5}
TreeFlags ==
    [title : {NoFlag}, priority : {NoFlag, {0}, {5}, {-3}},
     status : {NoFlag, {StatusClosed}, {"done"}}]

InitTree ==
    /\ tasks = [id \in {<<"A">>} |-> NewTask(NoID, "t", PriorityMedium)]
    /\ deps = <<>>
    /\ gates = <<>>
    /\ links = <<>>
    /\ runs = <<>>
    /\ history = <<>>
    /\ last = Outcome("init", NoID, NoID, "")
    /\ closing = NoClose
    /\ adding = NoAdd


NextTree ==
    \/ \E parentID \in TreeParents, generated \in {<<"A">>, <<"B">>},
           title \in {"t", ""}, priority \in TreePriorities :
           runCreate(parentID, generated, title, priority)
    \/ \E f \in TreeFlags : runUpdate(<<"A">>, f, FALSE, AnswerNo)
    \/ runReopen(<<"A">>)

SpecTree == InitTree /\ [][NextTree]_vars

\* the tasks whose parent_id is p
SubtasksOf(p) == {t \in DOMAIN tasks : tasks[t].parent_id = p}

\* C27: a subtask created under parent P gets the identifier P.(k+1), where
\* k is the number of subtasks P has, and parent_id = P; so the subtasks of
\* P are exactly P.1 .. P.k, pairwise distinct.
C27_SubtaskOrdinals ==
    /\ [](\A p \in DOMAIN tasks :
            SubtasksOf(p) = {Append(p, n) : n \in 1..Cardinality(SubtasksOf(p))})
    /\ [][(last'.cmd = "create" /\ last'.err = "")
            => LET id == last'.a
                   p == tasks'[id].parent_id
               IN /\ id \notin DOMAIN tasks
                  /\ DOMAIN tasks' = DOMAIN tasks \cup {id}
                  /\ \A t \in DOMAIN tasks : tasks'[t] = tasks[t]
                  /\ p # NoID => id = Append(p, Cardinality(SubtasksOf(p)) + 1)]_vars

\* A.2 was created after A.1
C27_Witness ==
    /\ last = Outcome("create", <<"A", 2>>, NoID, "")
    /\ SubtasksOf(<<"A">>) = {<<"A", 1>>, <<"A", 2>>}
    /\ tasks[<<"A", 2>>].parent_id = <<"A">>

-----------------------------------------------------------------------------
\* C28: the ready set is exactly the set of tasks with status open or
\* in_progress that have no blocks edge from a task whose status is not
\* closed, so a task blocked by an unclosed task is absent from it and is
\* back once all its blockers are closed; the ready query and the close
\* check agree on which tasks have an open blocker.
C28_ReadySet ==
    /\ runReady = {t \in DOMAIN tasks : Unclosed(t) /\ OpenBlockers(t) = {}}
    /\ \A t \in DOMAIN tasks : (t \in blockedTaskIDs) <=> (OpenBlockerCount(t) > 0)

\* A is ready again: the task B that blocks it is closed, and closed B is not
\* in the ready set
C28_Witness ==
    /\ <<<<"B">>, <<"A">>>> \in Edges(DepTypeBlocks)
    /\ tasks[<<"B">>].status = StatusClosed
    /\ <<"A">> \in runReady
    /\ <<"B">> \notin runReady

-----------------------------------------------------------------------------
(* Compaction: task A, created with a description, notes, an assignee and a *)
(* label, of type task or bug; closed, reopened, archived and compacted     *)

InitCompact ==
    /\ \E type \in {TypeTask, TypeBug} :
          tasks = [id \in {<<"A">>} |->
                     [NewTask(NoID, "t", PriorityMedium) EXCEPT
                         !.type = type, !.description = "d", !.notes = "n",
                         !.assignee = "me", !.labels = <<"x">>]]
    /\ deps = <<>>
    /\ gates = <<>>
    /\ links = <<>>
    /\ runs = <<>>
    /\ history = <<>>
    /\ last = Outcome("init", NoID, NoID, "")
    /\ closing = NoClose
    /\ adding = NoAdd


NextCompact ==
    \/ \E st \in ValidStatuses, title \in {NoFlag, {"u"}} :
           runUpdate(<<"A">>, [StatusFlag(st) EXCEPT !.title = title], FALSE, AnswerNo)
    \/ \E answer \in {AnswerYes, AnswerNo} : runClose(<<"A">>, "done", TRUE, TRUE, answer)
    \/ runReopen(<<"A">>)
    \/ runArchive(<<"A">>)
    \/ runUnarchive(<<"A">>)
    \/ \E id \in {<<"A">>, <<"B">>}, dryRun \in BOOLEAN : runCompact(id, dryRun)

SpecCompact == InitCompact /\ [][NextCompact]_vars

\* C29: compact of an existing task is accepted exactly when its status is
\* closed or archived and it is not compacted yet; it then sets the compacted
\* flag and a summary, clears description and notes and leaves every other
\* field (status, title, priority, type, assignee, labels, close_reason,
\* closed_at) and every other task unchanged; a refused compact and a dry run
\* change nothing, and Task.Compact on a compacted task changes nothing.
C29_CompactFrame ==
    /\ [](\A t \in DOMAIN tasks : tasks[t].compacted => Compact(tasks[t]) = tasks[t])
    /\ [][/\ (last'.cmd = "compact" /\ last'.a \in DOMAIN tasks)
               => LET t == last'.a
                  IN /\ (last'.err = "")
                          <=> (tasks[t].status \in {"closed", "archived"} /\ ~tasks[t].compacted)
                     /\ last'.err = ""
                          => /\ tasks'[t].compacted
                             /\ tasks'[t].summary # ""
                             /\ tasks'[t].description = "" /\ tasks'[t].notes = ""
                             /\ tasks' = [tasks EXCEPT ![t].compacted = TRUE,
                                                       ![t].summary = tasks'[t].summary,
                                                       ![t].description = "",
                                                       ![t].notes = ""]
                     /\ last'.err # "" => tasks' = tasks
          /\ (last'.cmd = "compact --dry-run") => tasks' = tasks]_vars

\* A, archived after a forced close, was compacted: the close reason is kept
C29_Witness ==
    /\ last = Outcome("compact", <<"A">>, NoID, "")
    /\ tasks[<<"A">>].compacted
    /\ tasks[<<"A">>].status = StatusArchived
    /\ tasks[<<"A">>].close_reason = "[FORCE CLOSED] done"
    /\ tasks[<<"A">>].description = ""
    /\ tasks[<<"A">>].assignee = "me"
    /\ tasks[<<"A">>].summary \in {"t | Closed: [FORCE CLOSED] done",
                                   "[bug] t | Closed: [FORCE CLOSED] done"}

-----------------------------------------------------------------------------
\* C30: in every state reachable through create and update, every task has
\* a priority in 0..4 and a status among open, in_progress, closed and
\* archived; a create given a priority outside 0..4 is rejected, and so is an
\* update given a priority outside 0..4 or a status outside its allowed set.
\* (The priority -1 of create stands for the flag not given.)
C30_PriorityAndStatusInRange ==
    /\ [](\A t \in DOMAIN tasks :
            /\ tasks[t].priority \in 0..4
            /\ tasks[t].status \in {"open", "in_progress", "closed", "archived"})
    /\ [][/\ \A parentID \in TreeParents, generated \in {<<"A">>, <<"B">>},
                title \in {"t", ""}, priority \in TreePriorities \ (0..4 \cup {-1}) :
                runCreate(parentID, generated, title, priority) => last'.err # ""
          /\ \A f \in TreeFlags :
                (/\ runUpdate(<<"A">>, f, FALSE, AnswerNo)
                 /\ \/ (f.priority # NoFlag /\ FlagValue(f.priority) \notin 0..4)
                    \/ (f.status # NoFlag
                          /\ FlagValue(f.status) \notin {"open", "in_progress", "closed"}))
                   => last'.err # ""]_vars

-----------------------------------------------------------------------------
(* Forced close: task A with a gate link that starts pending, task B with   *)
(* no link, reasons with and without the force marker                       *)

ForceIDs == {<<"A">>, <<"B">>}
ForceReasons == {"", "done", ForceClosedPrefix \o "done"}

InitForce ==
    /\ tasks = [id \in ForceIDs |-> NewTask(NoID, "t", PriorityMedium)]
    /\ deps = <<>>
    /\ gates = [g \in {<<"g1">>} |-> NewGate]
    /\ links = [k \in {<<<<"g1">>, <<"A">>>>} |-> <<NewLink>>]
    /\ runs = [g \in {<<"g1">>} |-> <<>>]
    /\ history = <<>>
    /\ last = Outcome("init", NoID, NoID, "")
    /\ closing = NoClose
    /\ adding = NoAdd

NextForce ==
    \/ \E r \in {GatePassed, GateFailed} : runGateResult(<<"g1">>, <<"A">>, r, "human")
    \/ \E id \in ForceIDs, reason \in ForceReasons, force \in BOOLEAN, tty \in BOOLEAN,
           answer \in Answers : runClose(id, reason, force, tty, answer)
    \/ \E id \in ForceIDs : runReopen(id)

SpecForce == InitForce /\ [][NextForce]_vars

\* the stored reason starts with the force marker
HasForcePrefix(s) ==
    \E r \in ForceReasons \cup {ForceClosedPrefix \o x : x \in ForceReasons} :
        s = ForceClosedPrefix \o r

\* the history entries a successful close of t appends: status, and
\* close_reason when the stored reason is not empty
CloseEntries(t, old, stored) ==
    LET entry(field, o, n) ==
            [task_id |-> t, field |-> field, old_value |-> o, new_value |-> n,
             changed_by |-> "user"]
    IN <<entry("status", old, StatusClosed)>>
         \o (IF stored = "" THEN <<>> ELSE <<entry("close_reason", "", stored)>>)

\* C31 (as stated): on the forced close path with a failing gate check a
\* non-interactive close is refused, an interactive one closes the task only
\* when the answer is yes (trimmed, case-insensitive) and otherwise leaves task
\* and history unchanged; and the stored close_reason, and the close_reason
\* history entry, start with "[FORCE CLOSED] " exactly when the close bypassed
\* a failing gate check.
C31_ForcePathAndMarkerExactly ==
    [][\A id \in ForceIDs, reason \in ForceReasons, force \in BOOLEAN, tty \in BOOLEAN,
          answer \in Answers :
          (/\ last'.cmd = CloseCmd(force) /\ last'.a = id /\ ~IsClosed(tasks[id])
           /\ runClose(id, reason, force, tty, answer))
          => LET bypass == force /\ ~GatesReady(id)
             IN /\ (bypass /\ ~(tty /\ answer \in {AnswerYes, AnswerYesLoud}))
                     => (last'.err # "" /\ tasks' = tasks /\ history' = history)
                /\ (bypass /\ tty /\ answer \in {AnswerYes, AnswerYesLoud})
                     => (last'.err = "" /\ tasks'[id].status = StatusClosed)
                /\ last'.err = ""
                     => /\ HasForcePrefix(tasks'[id].close_reason) <=> bypass
                        /\ history' = history \o CloseEntries(id, tasks[id].status,
                                                              tasks'[id].close_reason)]_vars

\* C31 (amended): as above for the refusal and the confirmation; and the
\* stored close_reason is "[FORCE CLOSED] " followed by the given reason when
\* the close bypassed a failing gate check and the given reason itself
\* otherwise, with the close_reason history entry (written when the stored
\* reason is not empty) carrying the same value.
C31_ForcePathAndMarkerAdded ==
    [][\A id \in ForceIDs, reason \in ForceReasons, force \in BOOLEAN, tty \in BOOLEAN,
          answer \in Answers :
          (/\ last'.cmd = CloseCmd(force) /\ last'.a = id /\ ~IsClosed(tasks[id])
           /\ runClose(id, reason, force, tty, answer))
          => LET bypass == force /\ ~GatesReady(id)
                 stored == IF bypass THEN "[FORCE CLOSED] " \o reason ELSE reason
             IN /\ (bypass /\ ~(tty /\ answer \in {AnswerYes, AnswerYesLoud}))
                     => (last'.err # "" /\ tasks' = tasks /\ history' = history)
                /\ (bypass /\ tty /\ answer \in {AnswerYes, AnswerYesLoud})
                     => (last'.err = "" /\ tasks'[id].status = StatusClosed)
                /\ last'.err = ""
                     => /\ tasks'[id].close_reason = stored
                        /\ history' = history \o CloseEntries(id, tasks[id].status, stored)]_vars

\* A was force-closed past a gate link that is not passed: the marked reason
\* is stored and is the new value of the newest history entry
C31_Witness ==
    /\ last.cmd = "close --force" /\ last.err = "" /\ last.a = <<"A">>
    /\ ~GatesReady(<<"A">>)
    /\ tasks[<<"A">>].status = StatusClosed
    /\ tasks[<<"A">>].close_reason = "[FORCE CLOSED] done"
    /\ history[Len(history)].new_value = "[FORCE CLOSED] done"

-----------------------------------------------------------------------------
\* C32: an update that gives the status open or in_progress for a task whose
\* status is closed is rejected and changes neither the tasks nor the
\* history, whatever other flags it gives; and the status of a closed task
\* changes only by reopen (to open) or by archive (to archived).
C32_ClosedLeavesByReopenOrArchive ==
    [][/\ \A st \in {StatusOpen, StatusInProgress}, title \in {NoFlag, {"u"}} :
            (/\ runUpdate(<<"A">>, [StatusFlag(st) EXCEPT !.title = title], FALSE, AnswerNo)
             /\ tasks[<<"A">>].status = StatusClosed)
                => (last'.err # "" /\ tasks' = tasks /\ history' = history)
       /\ \A t \in DOMAIN tasks :
            (tasks[t].status = StatusClosed /\ tasks'[t].status # StatusClosed)
                => \/ last'.cmd = "reopen" /\ tasks'[t].status = StatusOpen
                   \/ last'.cmd \in {"archive", "archive --all"}
                        /\ tasks'[t].status = StatusArchived]_vars

\* the closed task A has just refused an update of its status, with a close
\* and nothing else in its history
C32_Witness ==
    /\ last.cmd = "update" /\ last.a = <<"A">>
    /\ last.err = "cannot change status of closed task"
    /\ tasks[<<"A">>].status = StatusClosed
    /\ history # <<>> /\ history[Len(history)].field = "close_reason"

-----------------------------------------------------------------------------
(* The search of wouldCreateCycle on every store of up to MaxSearchRows     *)
(* blocks rows over four tasks: chains, diamonds, cycles (which two         *)
(* concurrent dep add calls can leave behind) and one doubled row.  The     *)
(* blocked task is A in every call: the stores range over every labelling,  *)
(* so every shape of store and start node occurs.                           *)

MaxSearchRows == 4

SearchStores ==
    LET Rows == {<<x, y, DepTypeBlocks>> : x \in DepCallIDs, y \in DepCallIDs} \
                  {<<x, x, DepTypeBlocks>> : x \in DepCallIDs}
        Doubled(E) == {{}} \cup {{k} : k \in E}
    IN UNION {{[k \in E |-> IF k \in D THEN 2 ELSE 1] :
                 D \in {D \in Doubled(E) : Cardinality(E) + Cardinality(D) <= MaxSearchRows}} :
              E \in {E \in SUBSET Rows : Cardinality(E) <= MaxSearchRows}}

InitSearch ==
    /\ tasks = [id \in DepCallIDs |->
                  NewTask(IF Len(id) = 1 THEN NoID ELSE SubSeq(id, 1, Len(id) - 1),
                          "t", PriorityMedium)]
    /\ deps \in SearchStores
    /\ gates = <<>>
    /\ links = <<>>
    /\ runs = <<>>
    /\ history = <<>>
    /\ last = Outcome("init", NoID, NoID, "")
    /\ closing = NoClose
    /\ adding = NoAdd

NextSearch ==
    \/ \E x \in DepCallIDs : runDepAddLoad(x, <<"A">>, DepTypeBlocks)
    \/ wouldCreateCycleStep
    \/ runDepAddInsert

\* the process that runs the loop keeps running it
SpecSearch == InitSearch /\ [][NextSearch]_vars /\ WF_vars(wouldCreateCycleStep)

\* C33: the search of wouldCreateCycle ends on every finite set of rows,
\* diamonds, cycles and doubled rows included (a search that is running
\* leads to one that has returned), and it expands no node twice: the nodes
\* it has queried are pairwise different.
C33_SearchTerminates ==
    /\ [](\A i \in 1..Len(adding.expanded), j \in 1..Len(adding.expanded) :
            adding.expanded[i] = adding.expanded[j] => i = j)
    /\ (adding.pc = "search") ~> (adding.pc # "search")

\* a search has returned false on a store that holds a cycle through the
\* blocked task, after expanding three nodes
C33_Witness ==
    /\ adding.pc = "insert"
    /\ Len(adding.expanded) = 3
    /\ adding.blockedID \in Reachable(adding.blockedID, Edges(DepTypeBlocks))

-----------------------------------------------------------------------------
\* C34: after any sequence of dep add and dep remove calls there is at most
\* one live blocks row per ordered pair (blocker, blocked), a second dep add
\* of a pair whose row exists adding none, and after a successful dep remove
\* of a pair no row of that pair remains.
C34_OneEdgePerPair ==
    /\ [](\A k \in DOMAIN deps : k[3] = DepTypeBlocks => deps[k] <= 1)
    /\ [][(last'.cmd = "dep remove" /\ last'.err = "")
            => \A k \in DOMAIN deps' : ~(k[1] = last'.a /\ k[2] = last'.b)]_vars

-----------------------------------------------------------------------------
\* C35: in every state reached without an interactive force confirmation,
\* every task whose status is closed has at least one gate link and all its
\* links are passed; and gate link, gate unlink and the gate verifications
\* leave the link rows of a closed task as they are.
C35_ClosedTaskGatesPassed ==
    /\ [](\A t \in DOMAIN tasks : tasks[t].status = StatusClosed => GatesReady(t))
    /\ [][\A t \in DOMAIN tasks :
            (/\ tasks[t].status = StatusClosed
             /\ last'.cmd \in {"gate link", "gate unlink", "gate pass", "gate fail", "gate skip"})
                => {<<k, links[k]>> : k \in LinksOfTask(t)}
                     = {<<k, links'[k]>> : k \in LinksOfTask(t)'}]_vars

-----------------------------------------------------------------------------
(* Commands without --force, one after the other: task A with its subtask   *)
(* A.1 and task B, each linked to gate g1 and verified as passed, so that   *)
(* every close is decided by blockers and subtasks                          *)

InitPlain ==
    /\ tasks = [id \in {<<"A">>, <<"A", 1>>, <<"B">>} |->
                  NewTask(IF id = <<"A", 1>> THEN <<"A">> ELSE NoID, "t", PriorityMedium)]
    /\ deps = <<>>
    /\ gates = [g \in {<<"g1">>} |->
                  RecordRun(RecordRun(RecordRun(NewGate, GatePassed), GatePassed), GatePassed)]
    /\ links = [k \in {<<<<"g1">>, <<"A">>>>, <<<<"g1">>, <<"A", 1>>>>, <<<<"g1">>, <<"B">>>>}
                  |-> <<PassedLink>>]
    /\ runs = [g \in {<<"g1">>} |-> <<GatePassed, GatePassed, GatePassed>>]
    /\ history = <<>>
    /\ last = Outcome("init", NoID, NoID, "")
    /\ closing = NoClose
    /\ adding = NoAdd

NextPlain ==
    \/ runCreate(<<"A">>, <<"C">>, "t", -1)
    \/ \E x \in {<<"A">>, <<"B">>}, y \in {<<"A">>, <<"B">>} : runDepAdd(x, y, DepTypeBlocks)
    \/ \E x \in {<<"A">>, <<"B">>}, y \in {<<"A">>, <<"B">>} : runDepRemove(x, y)
    \/ \E id \in DOMAIN tasks : runClose(id, "", FALSE, FALSE, AnswerNo)
    \/ \E id \in DOMAIN tasks : runReopen(id)
    \/ \E id \in DOMAIN tasks : runArchive(id)
    \/ \E id \in DOMAIN tasks : runUnarchive(id)

SpecPlain == InitPlain /\ [][NextPlain]_vars

\* C36: in every state reached by commands without --force, no task whose
\* status is closed has a direct subtask whose status is open or in_progress.
C36_NoOpenSubtaskUnderClosed ==
    \A p \in DOMAIN tasks, c \in DOMAIN tasks :
        (tasks[c].parent_id = p /\ tasks[p].status = StatusClosed)
            => tasks[c].status \notin {StatusOpen, StatusInProgress}

\* C37: in every state reached by commands without --force, no task whose
\* status is closed has a blocks row from a task whose status is open or
\* in_progress.
C37_NoOpenBlockerOfClosed ==
    \A t \in DOMAIN tasks, x \in DOMAIN tasks :
        (tasks[t].status = StatusClosed /\ <<x, t>> \in Edges(DepTypeBlocks))
            => tasks[x].status \notin {StatusOpen, StatusInProgress}

\* every blocker and every direct subtask of t is closed or archived
AllSettled(t) ==
    \A x \in DOMAIN tasks :
        (<<x, t>> \in Edges(DepTypeBlocks) \/ tasks[x].parent_id = t)
            => tasks[x].status \in {StatusClosed, StatusArchived}

\* C38: when every blocker and every direct subtask of T is closed or
\* archived and every gate link of T is passed, a close of T without --force
\* succeeds, and T, when open, is in the ready set.
C38_ArchivedDoesNotBlock ==
    /\ [](\A t \in DOMAIN tasks :
            (tasks[t].status = StatusOpen /\ AllSettled(t)) => t \in runReady)
    /\ [][\A t \in DOMAIN tasks :
            (/\ last'.cmd = "close" /\ last'.a = t
             /\ tasks[t].status \in {StatusOpen, StatusInProgress}
             /\ AllSettled(t) /\ GatesReady(t))
                => (last'.err = "" /\ tasks'[t].status = StatusClosed)]_vars

-----------------------------------------------------------------------------
(* Two processes on the store of three open tasks: one runs dep add and dep *)
(* remove whole, the other runs dep add store call by store call            *)

NextDepRace ==
    \/ \E x \in DepTaskIDs, y \in DepTaskIDs : runDepAdd(x, y, DepTypeBlocks)
    \/ \E x \in DepTaskIDs, y \in DepTaskIDs : runDepRemove(x, y)
    \/ \E x \in DepTaskIDs, y \in DepTaskIDs : runDepAddLoad(x, y, DepTypeBlocks)
    \/ wouldCreateCycleStep
    \/ runDepAddInsert

SpecDepRace == InitDep /\ [][NextDepRace]_vars

\* C39: the graph of blocks rows has no cycle also when the dep add calls of
\* two processes interleave between their store calls: dep add A B and
\* dep add B A, started on a store without rows between A and B, never both
\* succeed.
C39_AcyclicUnderInterleaving ==
    /\ Acyclic(Edges(DepTypeBlocks))
    /\ \A x \in DOMAIN tasks, y \in DOMAIN tasks :
         ~(<<x, y>> \in Edges(DepTypeBlocks) /\ <<y, x>> \in Edges(DepTypeBlocks))

=============================================================================
